---- MODULE Spec2Model ----
(***************************************************************************)
(* Document Index & Consistency Engine of Context-MCP.                     *)
(*                                                                         *)
(* DocumentStore (in-memory map, one durable slot per document, manifest), *)
(* SearchIndex (entry map, lunr index object, persisted index artifact),   *)
(* the FileWatcher handlers (Reconciler) and the MCP tool handlers.        *)
(*                                                                         *)
(* JavaScript runs one handler at a time between await points.  A handler  *)
(* is therefore a sequence of atomic steps: a step completes the I/O call  *)
(* the handler is suspended on (success or failure) and runs the code that *)
(* follows up to the next I/O call, whose arguments (the bytes to write)   *)
(* are captured when the call is made.  Several handlers can be suspended  *)
(* at the same time: the watcher does not await a handler before it        *)
(* dispatches the next event, and tool requests are served concurrently.   *)
(***************************************************************************)
EXTENDS Integers, Sequences, FiniteSets, Bags, TLC

(***************************************************************************)
(* Bounds of the model.                                                    *)
(***************************************************************************)
\* how many ids nanoid() hands out in one run
MaxIds == 2
\* how many milliseconds the clock may advance in one run
MaxClock == 1
\* how many I/O calls may fail in one run
MaxFaults == 1
\* how many handlers may be suspended at an await at the same time
MaxInFlight == 2
\* how many tool calls and watcher events one run handles
MaxCalls == 4

(***************************************************************************)
(* Strings.  A string is a sequence of characters, a character a           *)
(* one-symbol TLA+ string.                                                 *)
(***************************************************************************)
\* String.prototype.length counts UTF-16 code units; the characters used
\* here are all one code unit long.
StrLen(s) == Len(s)

\* Bytes of one character in UTF-8 (Buffer.byteLength(content, 'utf8')).
Utf8Bytes(c) == IF c = "é" THEN 2 ELSE 1

RECURSIVE byteLength(_)
byteLength(s) == IF s = <<>> THEN 0 ELSE Utf8Bytes(Head(s)) + byteLength(Tail(s))

\* The characters the regular expression class \s matches.
IsSpace(c) == c \in {" ", "\n", "\t"}

\* content.split(/\s+/).filter(word => word.length > 0): the maximal runs of
\* non-space characters, in order.
words(s) ==
  LET n == Len(s)
      starts == {i \in 1..n : ~IsSpace(s[i]) /\ (i = 1 \/ IsSpace(s[i - 1]))}
      endOf(i) == CHOOSE j \in i..n :
                    /\ j = n \/ IsSpace(s[j + 1])
                    /\ \A k \in i..j : ~IsSpace(s[k])
      nth(k) == CHOOSE i \in starts : Cardinality({j \in starts : j < i}) = k - 1
  IN [k \in 1..Cardinality(starts) |-> SubSeq(s, nth(k), endOf(nth(k)))]

wordCount(s) == Len(words(s))

\* String.prototype.toLowerCase, on the letters that occur
lowerChar(c) ==
  CASE c = "T" -> "t" [] c = "X" -> "x" [] c = "K" -> "k" [] c = "Q" -> "q"
    [] OTHER -> c

toLowerCase(s) == [i \in 1..Len(s) |-> lowerChar(s[i])]

\* Array.prototype.join
RECURSIVE join(_, _)
join(list, sep) ==
  IF list = <<>> THEN <<>>
  ELSE IF Len(list) = 1 THEN list[1]
       ELSE list[1] \o sep \o join(Tail(list), sep)

\* Object spread {...a, ...b}: the keys of both, b's value where both have one.
Spread(a, b) ==
  [k \in (DOMAIN a) \cup (DOMAIN b) |-> IF k \in DOMAIN b THEN b[k] ELSE a[k]]

\* The object with no own property ({} or an absent optional argument).
Empty == <<>>

Has(o, k) == k \in DOMAIN o

(***************************************************************************)
(* Paths: directory, file name without extension, extension.               *)
(***************************************************************************)
PathA == [dir |-> <<"/", "w">>, base |-> <<"a">>, ext |-> <<".", "t", "x", "t">>]
PathB == [dir |-> <<"/", "w">>, base |-> <<"b">>, ext |-> <<".", "T", "X", "T">>]
PathBin == [dir |-> <<"/", "w">>, base |-> <<"a">>, ext |-> <<".", "b", "i", "n">>]

\* path.basename(filePath)
basename(p) == p.base \o p.ext

\* path.extname(filePath).toLowerCase()
extname(p) == toLowerCase(p.ext)

\* DocumentProcessor.supportedExtensions
supportedExtensions ==
  { <<".", "t", "x", "t">>, <<".", "m", "d">>, <<".", "p", "d", "f">>,
    <<".", "d", "o", "c", "x">>, <<".", "h", "t", "m", "l">>,
    <<".", "h", "t", "m">>, <<".", "j", "s", "o", "n">> }

isSupported(p) == extname(p) \in supportedExtensions

\* the Document['type'] the extractor reports for an extension
typeOf(p) == IF extname(p) = <<".", "t", "x", "t">> THEN "txt" ELSE "md"

(***************************************************************************)
(* A JavaScript Map keeps its entries in insertion order: a sequence of    *)
(* values, each carrying its key in the field id.                          *)
(***************************************************************************)
MapIds(m) == {m[i].id : i \in 1..Len(m)}

MapHas(m, id) == id \in MapIds(m)

MapGet(m, id) == m[CHOOSE i \in 1..Len(m) : m[i].id = id]

\* set() of a present key keeps the key's place; of a new key appends
MapSet(m, id, v) ==
  IF MapHas(m, id)
  THEN [i \in 1..Len(m) |-> IF m[i].id = id THEN v ELSE m[i]]
  ELSE Append(m, v)

MapDelete(m, id) == SelectSeq(m, LAMBDA d : d.id # id)

\* new Map(list.map(d => [d.id, d])): later entries replace earlier ones
\* (a key keeps the place of its first entry)
MapFrom(list) ==
  LET n == Len(list)
      keys == SelectSeq([i \in 1..n |-> i],
                        LAMBDA i : \A j \in 1..(i - 1) : list[j].id # list[i].id)
      last(id) == CHOOSE i \in 1..n :
                    list[i].id = id /\ \A j \in (i + 1)..n : list[j].id # id
  IN [k \in 1..Len(keys) |-> list[last(list[keys[k]].id)]]

\* A file that does not exist is <<>>, a file holding data is <<data>>; the
\* same for a value that may be null or undefined.
None == <<>>
Some(v) == <<v>>
IsSome(o) == o # <<>>
The(o) == o[1]

(***************************************************************************)
(* Where the artifacts are.  A location is the sequence of the segments of *)
(* its path, "/" the first segment of an absolute one.                     *)
(***************************************************************************)
RECURSIVE path_normalize(_, _)
\* the segments rest appended to done, "." dropped and ".." taking the
\* segment before it away
path_normalize(done, rest) ==
  IF rest = <<>> THEN done
  ELSE LET x == Head(rest) IN
       IF x = "." THEN path_normalize(done, Tail(rest))
       ELSE IF x = ".." /\ done = <<"/">> THEN path_normalize(done, Tail(rest))
       ELSE IF x = ".." /\ Len(done) > 0 /\ done[Len(done)] # ".."
            THEN path_normalize(SubSeq(done, 1, Len(done) - 1), Tail(rest))
       ELSE path_normalize(Append(done, x), Tail(rest))

\* path.join(a, ...b)
path_join(a, b) == path_normalize(<<>>, a \o b)

\* the absolute path fs works on when it is given p by a process whose
\* current directory is cwd
path_resolve(cwd, p) ==
  IF p # <<>> /\ p[1] = "/" THEN path_normalize(<<>>, p)
  ELSE path_normalize(<<>>, cwd \o p)

\* __dirname of the server module
ModuleDir == <<"/", "app", "dist">>

\* const dataPath = process.env.DATA_PATH || path.join(__dirname, '..', 'data')
dataPath(proc) ==
  IF IsSome(proc.env.DATA_PATH) THEN The(proc.env.DATA_PATH)
  ELSE path_join(ModuleDir, <<"..", "data">>)

\* new DocumentStore(dataPath): the directory of the slots, and metadataPath
Store_documentsDir(proc) == path_join(dataPath(proc), <<"documents">>)

Store_metadataPath(proc) == path_join(dataPath(proc), <<"metadata", "documents.json">>)

\* new SearchIndex(): basePath is the default './data' of the constructor
Index_indexPath == path_join(<<".", "data">>, <<"index", "search.json">>)

\* the three directories DocumentStore.initialize makes
initializeDirs(proc) ==
  {path_resolve(proc.cwd, path_join(dataPath(proc), <<d>>)) :
     d \in {"documents", "metadata", "index"}}

\* the server started from the directory of the package, DATA_PATH not set
DefaultProcess == [env |-> [DATA_PATH |-> None], cwd |-> <<"/", "app">>]

(***************************************************************************)
(* State.                                                                  *)
(***************************************************************************)
VARIABLES
  metadata,    \* DocumentStore.metadata: Map<id, Document>
  slots,       \* data/documents/<id>.json: the durable record of each id
  manifest,    \* data/metadata/documents.json
  documents,   \* SearchIndex.documents: Map<id, IndexEntry>
  index,       \* SearchIndex.index: null or the lunr index built last
  indexFile,   \* data/index/search.json
  nextId,      \* the ids nanoid() has handed out are 1..nextId-1
  now,         \* the clock, in milliseconds
  faults,      \* how many I/O calls have failed
  th,          \* the handlers in flight, a bag: of each its await point and locals
  calls,       \* how many tool calls and watcher events have been taken up
  failed,      \* history: some mutation did not return success
  deleted,     \* history: <<id, path>> of every delete that completed with success
  addedRuns,   \* history: handleFileAdded runs completed since the last delete began
  process,     \* process.env.DATA_PATH and process.cwd() of the server process
  dirs         \* the directories fs.mkdir has made, as absolute paths

vars == <<metadata, slots, manifest, documents, index, indexFile, nextId, now,
          faults, th, calls, failed, deleted, addedRuns, process, dirs>>

\* The whole state as one value, as the handler h that takes the step sees
\* it: th holds h alone, under the name "me".  The operators below map a state
\* to the state after a piece of code has run.
me == "me"

St(h) ==
  [metadata |-> metadata, slots |-> slots, manifest |-> manifest,
   documents |-> documents, index |-> index, indexFile |-> indexFile,
   nextId |-> nextId, now |-> now, faults |-> faults, th |-> [x \in {me} |-> h],
   failed |-> failed, deleted |-> deleted, addedRuns |-> addedRuns,
   process |-> process, dirs |-> dirs]

\* The step of handler h (not in th when it is a new one) that leads to s: h
\* is suspended again, or has returned.
Becomes(h, s) ==
  /\ th' = (th (-) SetToBag({h})) (+)
             (IF s.th[me].op = "idle" THEN EmptyBag ELSE SetToBag({s.th[me]}))
  /\ calls' = IF h.op = "idle" THEN calls + 1 ELSE calls
  /\ metadata' = s.metadata
  /\ slots' = s.slots
  /\ manifest' = s.manifest
  /\ documents' = s.documents
  /\ index' = s.index
  /\ indexFile' = s.indexFile
  /\ nextId' = s.nextId
  /\ now' = s.now
  /\ faults' = s.faults
  /\ failed' = s.failed
  /\ deleted' = s.deleted
  /\ addedRuns' = s.addedRuns
  /\ process' = process
  /\ dirs' = s.dirs

\* A handler slot with no handler in it.
IdleThread ==
  [op |-> "idle", pc |-> "idle", path |-> None, id |-> 0, title |-> <<>>,
   tags |-> None, doc |-> None, upd |-> None, snap |-> None,
   acc |-> {}, saves |-> {}, ok |-> TRUE, pre |-> None, res |-> <<>>,
   read |-> Empty, event |-> ""]

\* The handlers that stand for a caller of the DocumentStore methods itself:
\* the caller is left holding the result the method returned.
StoreCalls == {"addDocument", "updateDocument", "deleteDocument", "getDocument",
               "getDocumentByPath"}

\* the methods of SearchIndex a caller invokes directly; their results are held
\* in the same way
IndexCalls == {"index.addDocument", "index.removeDocument", "rebuildFromDocuments",
               "clearIndex", "search"}

\* the startup of the server: its outcome is held as well
ServerCalls == {"initialize"}

Min(a, b) == IF a < b THEN a ELSE b
Max(a, b) == IF a > b THEN a ELSE b

\* the store and the index of a state s
WorldOf(s) ==
  [metadata |-> s.metadata, slots |-> s.slots, manifest |-> s.manifest,
   documents |-> s.documents, index |-> s.index, indexFile |-> s.indexFile]

\* the store and the index as they are now
World == WorldOf(St(IdleThread))

\* The handler returns to its caller (the watcher or the MCP server).  ok says
\* whether every store and index operation it made returned success.
Finish(s, t, ok) ==
  LET h == s.th[t] IN
  [s EXCEPT
     !.th[t] = IF h.op \in StoreCalls \cup IndexCalls \cup ServerCalls
               THEN [h EXCEPT !.pc = "returned", !.ok = ok, !.snap = None]
               ELSE IdleThread,
     !.failed = s.failed \/ ~ok,
     !.addedRuns = IF h.op = "handleFileAdded" THEN Min(2, s.addedRuns + 1)
                   ELSE s.addedRuns]

(***************************************************************************)
(* SearchIndex                                                             *)
(***************************************************************************)
Dots == <<".", ".", ".">>

truncateContent(content, maxLength) ==
  IF StrLen(content) <= maxLength THEN content
  ELSE SubSeq(content, 1, maxLength) \o Dots

\* the cap addDocument and rebuildFromDocuments pass to truncateContent
IndexContentCap == 10000

\* the IndexEntry addDocument and rebuildFromDocuments derive from a Document
entryOf(doc) ==
  [id |-> doc.id,
   title |-> doc.title,
   content |-> truncateContent(doc.content, IndexContentCap),
   tags |-> IF Has(doc.metadata, "tags") THEN doc.metadata.tags ELSE <<>>]

\* lunr(function () { ... documents.forEach(doc => this.add({...})) }): the
\* index object holds what was added to it when it was built.
lunr(docs) ==
  [i \in 1..Len(docs) |->
     [id |-> docs[i].id, title |-> docs[i].title, content |-> docs[i].content,
      tags |-> join(docs[i].tags, <<" ">>)]]

\* saveIndex makes one write, of the index object and the entry list as they
\* are when it is called; a null index is not written at all.
saveIndexData(s) == [idx |-> The(s.index), docs |-> s.documents]

\* rebuildIndex without its check for zero entries
rebuildIndex_NoEmptyCheck(s) == [s EXCEPT !.index = Some(lunr(s.documents))]

\* rebuildIndex up to its await: the index object is rebuilt from the entries
\* (null when there are none).
rebuildIndex(s) ==
  IF Len(s.documents) = 0
  THEN [s EXCEPT !.index = None]
  ELSE [s EXCEPT !.index = Some(lunr(s.documents))]

\* After a SearchIndex call has returned to the handler: every handler logs the
\* outcome and returns.  A delete handler gets here after deleteDocument
\* returned success.
AfterIndex(s, t, ok) ==
  LET h == s.th[t] IN
  IF ok /\ h.op \in {"delete_document", "handleFileDeleted"}
  THEN Finish([s EXCEPT !.deleted = s.deleted \cup {<<h.id, The(h.doc).path>>}], t, ok)
  ELSE IF h.op = "initialize"
       \* a failed rebuildFromDocuments is only a warning of initialize
       THEN Finish(s, t, TRUE)
       ELSE Finish(s, t, ok)

(***************************************************************************)
(* search.  lunr is a library: its tokenizer (lower case, split at white   *)
(* space and hyphens) and its matching of a term, exact or with a trailing *)
(* wildcard, against the tokens of a field are modelled; its stemmer, its  *)
(* stop words and its scoring formula are not, the score of a document is  *)
(* the sum of the boosts of the (term, field) pairs that match.            *)
(***************************************************************************)
\* the characters of the regular expression class \w that occur
WordChars == {"a", "b", "k", "q", "t", "w", "x", "y", "K", "Q", "T", "X", "_"}

\* query.trim().replace(/[^\w\s\-_]/g, ' ').replace(/\s+/g, ' ').trim()
cleaned(query) ==
  join(words([i \in 1..Len(query) |->
                IF query[i] \in WordChars \/ IsSpace(query[i]) \/ query[i] = "-"
                THEN query[i] ELSE " "]),
       <<" ">>)

cleanQuery(query) ==
  LET c == cleaned(query)
      ws == words(c)
  IN IF c = <<>> THEN <<>>
     ELSE IF Len(ws) = 1 /\ StrLen(ws[1]) > 2
          THEN ws[1] \o <<"*", " ">> \o ws[1]
          ELSE c

\* lunr.tokenizer: lower case, split at white space and hyphens
tokens(str) ==
  words([i \in 1..Len(str) |-> IF str[i] = "-" THEN " " ELSE lowerChar(str[i])])

IsPrefix(p, w) == Len(p) <= Len(w) /\ SubSeq(w, 1, Len(p)) = p

\* a query term matches a token: equal, or a prefix when the term ends in *
termMatches(term, tok) ==
  IF term # <<>> /\ term[Len(term)] = "*"
  THEN IsPrefix(SubSeq(term, 1, Len(term) - 1), tok)
  ELSE term = tok

fieldHits(terms, str) ==
  Cardinality({i \in 1..Len(terms) :
                 \E j \in 1..Len(tokens(str)) : termMatches(terms[i], tokens(str)[j])})

\* this.field('title', { boost: 10 }); this.field('content'); this.field('tags', { boost: 5 })
TitleBoost == 10
TagsBoost == 5

score(terms, d) ==
  TitleBoost * fieldHits(terms, d.title) + fieldHits(terms, d.content)
    + TagsBoost * fieldHits(terms, d.tags)

\* the ids at the positions left of idx, ordered by falling score (the
\* position decides between equal scores)
ranked(idx, terms, left) ==
  LET sc == <<>> \o [i \in 1..Len(idx) |-> score(terms, idx[i])]
      before(j, i) == sc[j] > sc[i] \/ (sc[j] = sc[i] /\ j < i)
      nth(k) == CHOOSE i \in left : Cardinality({j \in left : before(j, i)}) = k - 1
  IN [k \in 1..Cardinality(left) |-> idx[nth(k)].id]

\* this.index.search(cleanQuery): the refs of the matching documents
lunrSearch(idx, cq) ==
  LET terms == tokens(cq) IN
  ranked(idx, terms, {i \in 1..Len(idx) : score(terms, idx[i]) > 0})

\* Array.prototype.slice(0, n): a negative n counts from the end
slice0(list, n) ==
  SubSeq(list, 1, IF n < 0 THEN Max(Len(list) + n, 0) ELSE Min(n, Len(list)))

\* the sequence without the elements that fail keep
filterIds(list, keep) == SelectSeq(list, LAMBDA x : x \in keep)

\* SearchIndex.search(query, limit): the ids of the results, in order (always
\* with success: true)
search(s, query, limit) ==
  IF s.index = None \/ words(query) = <<>> THEN <<>>
  ELSE IF cleanQuery(query) = <<>> THEN <<>>
       ELSE filterIds(slice0(lunrSearch(The(s.index), cleanQuery(query)), limit),
                      MapIds(s.documents))

\* String.prototype.indexOf(word): the 0-based position of the first
\* occurrence, -1 when there is none
indexOf(str, word) ==
  LET at == {i \in 0..(Len(str) - Len(word)) : SubSeq(str, i + 1, i + Len(word)) = word}
  IN IF at = {} THEN -1 ELSE CHOOSE i \in at : \A j \in at : i <= j

\* the default of extractSnippet's parameter contextLength
ContextLength == 150

\* for (const word of queryWords) { ... }: the position in queryWords of the
\* word that occurs first in lowerContent (the earlier word on a tie), 0 when
\* none occurs
RECURSIVE bestOf(_, _, _, _)
bestOf(lowerContent, queryWords, k, best) ==
  IF k > Len(queryWords) THEN best
  ELSE LET idx == indexOf(lowerContent, queryWords[k])
       IN IF idx # -1 /\ (best = 0 \/ idx < indexOf(lowerContent, queryWords[best]))
          THEN bestOf(lowerContent, queryWords, k + 1, k)
          ELSE bestOf(lowerContent, queryWords, k + 1, best)

\* SearchIndex.extractSnippet(content, query, contextLength).  contextLength / 2
\* is not rounded: positions are kept doubled, and slice truncates them.
extractSnippet(content, query, contextLength) ==
  LET lowerContent == toLowerCase(content)
      ws == words(toLowerCase(query))
      queryWords == filterIds(ws, {w \in {ws[i] : i \in 1..Len(ws)} : StrLen(w) > 1})
      best == bestOf(lowerContent, queryWords, 1, 0)
  IN IF best = 0
     THEN truncateContent(content, contextLength) \o Dots
     ELSE LET bestIndex == indexOf(lowerContent, queryWords[best])
              bestWord == queryWords[best]
              start2 == Max(0, 2 * bestIndex - contextLength)
              end2 == Min(2 * StrLen(content),
                          2 * (bestIndex + StrLen(bestWord)) + contextLength)
              snippet == SubSeq(content, (start2 \div 2) + 1, end2 \div 2)
          IN (IF start2 > 0 THEN Dots ELSE <<>>) \o snippet
               \o (IF end2 < 2 * StrLen(content) THEN Dots ELSE <<>>)

\* the results search returns: one for each id, with the snippet of its entry
searchResults(s, query, limit) ==
  LET ids == search(s, query, limit) IN
  [i \in 1..Len(ids) |->
     [id |-> ids[i],
      title |-> MapGet(s.documents, ids[i]).title,
      snippet |-> extractSnippet(MapGet(s.documents, ids[i]).content, query,
                                 ContextLength)]]

\* SearchIndex.addDocument(doc) up to its first await (updateDocument is the
\* same call).
Index_addDocument(s, t, doc) ==
  LET s1 == rebuildIndex([s EXCEPT !.documents = MapSet(s.documents, doc.id, entryOf(doc))])
  IN [s1 EXCEPT !.th[t].pc = "saveIndex_writeFile",
                !.th[t].snap = Some(saveIndexData(s1))]

\* SearchIndex.removeDocument(id) up to its first await.
Index_removeDocument(s, t, id) ==
  IF ~MapHas(s.documents, id) THEN AfterIndex(s, t, FALSE)
  ELSE LET s1 == rebuildIndex([s EXCEPT !.documents = MapDelete(s.documents, id)])
       IN IF IsSome(s1.index)
          THEN [s1 EXCEPT !.th[t].pc = "saveIndex_writeFile",
                          !.th[t].snap = Some(saveIndexData(s1))]
          ELSE AfterIndex(s1, t, TRUE)

\* a failed write of the index taking the record of the handler out of the
\* map of the store again
saveIndex_writeFile_Rollback(s, t, io) ==
  IF io THEN AfterIndex([s EXCEPT !.indexFile = s.th[t].snap], t, TRUE)
  ELSE AfterIndex([s EXCEPT !.faults = s.faults + 1,
                            !.metadata = MapDelete(s.metadata, s.th[t].id)],
                  t, FALSE)

\* a failed write of the index undone in memory: the entries and the index
\* object are set back to those of the index file
saveIndex_writeFile_Undo(s, t, io) ==
  IF io THEN AfterIndex([s EXCEPT !.indexFile = s.th[t].snap], t, TRUE)
  ELSE AfterIndex(rebuildIndex([s EXCEPT
                    !.faults = s.faults + 1,
                    !.documents = IF s.indexFile = None THEN <<>>
                                  ELSE The(s.indexFile).docs]),
                  t, FALSE)

\* fs.writeFile(indexPath, ...) completes; a failure is rethrown by saveIndex
\* and rebuildIndex and becomes a failed result.
saveIndex_writeFile(s, t, io) ==
  IF io THEN AfterIndex([s EXCEPT !.indexFile = s.th[t].snap], t, TRUE)
  ELSE AfterIndex([s EXCEPT !.faults = s.faults + 1], t, FALSE)

\* rebuildFromDocuments without documents.clear()
Index_rebuildFromDocuments_NoClear(s, t, docs) ==
  LET s1 == rebuildIndex([s EXCEPT
                !.documents = MapFrom(s.documents \o
                                        [i \in 1..Len(docs) |-> entryOf(docs[i])])])
  IN IF IsSome(s1.index)
     THEN [s1 EXCEPT !.th[t].pc = "saveIndex_writeFile",
                     !.th[t].snap = Some(saveIndexData(s1))]
     ELSE AfterIndex(s1, t, TRUE)

\* SearchIndex.rebuildFromDocuments(docs) up to its first await: the entries are
\* cleared and set again from docs, then the index object is rebuilt and saved.
Index_rebuildFromDocuments(s, t, docs) ==
  LET s1 == rebuildIndex([s EXCEPT
                !.documents = MapFrom([i \in 1..Len(docs) |-> entryOf(docs[i])])])
  IN IF IsSome(s1.index)
     THEN [s1 EXCEPT !.th[t].pc = "saveIndex_writeFile",
                     !.th[t].snap = Some(saveIndexData(s1))]
     ELSE AfterIndex(s1, t, TRUE)

\* clearIndex without its 'this.index = null'
Index_clearIndex_KeepsIndex(s, t) ==
  [s EXCEPT !.documents = <<>>, !.th[t].pc = "clearIndex_unlink"]

\* SearchIndex.getIndexStats(), without the size of the serialized index
getIndexStats(s) ==
  [totalDocuments |-> Len(s.documents), indexExists |-> IsSome(s.index)]

\* SearchIndex.clearIndex() up to its await of fs.unlink(indexPath)
Index_clearIndex(s, t) ==
  [s EXCEPT !.documents = <<>>, !.index = None, !.th[t].pc = "clearIndex_unlink"]

\* fs.unlink(indexPath) completes; its failure is ignored
clearIndex_unlink(s, t, io) ==
  IF io THEN Finish([s EXCEPT !.indexFile = None], t, TRUE)
  ELSE Finish([s EXCEPT !.faults = s.faults + 1], t, TRUE)

\* What a file that cannot be parsed holds: in the place of the manifest's
\* list of documents, in the place of the index artifact's { idx, docs }.
BadManifest == << [garbage |-> TRUE] >>
BadIndex == [garbage |-> TRUE]

\* the outcome of fs.readFile and JSON.parse on a file: io is whether the read
\* itself works on a file that exists
readStatus(file, bad, io) ==
  IF file = None THEN "missing"
  ELSE IF ~io THEN "unreadable"
       ELSE IF The(file) = bad THEN "unparseable" ELSE "data"

\* SearchIndex.initialize() up to the await of fs.readFile in loadIndex
Index_initialize(s, t) == [s EXCEPT !.th[t].pc = "loadIndex_readFile"]

\* loadIndex without its catch: the failure reaches initialize, which returns
\* a failed result
loadIndex_readFile_NoCatch(s, t, io) ==
  LET st == readStatus(s.indexFile, BadIndex, io)
      s0 == [s EXCEPT !.th[t].read = Spread(s.th[t].read, [index |-> st]),
                      !.faults = IF st = "unreadable" THEN s.faults + 1 ELSE s.faults]
  IN IF st = "data"
     THEN [s0 EXCEPT !.index = Some(The(s.indexFile).idx),
                     !.documents = MapFrom(The(s.indexFile).docs),
                     !.th[t].pc = "getAllDocuments"]
     ELSE Finish(s0, t, FALSE)

\* fs.readFile(indexPath) completes and loadIndex runs to its end: the index
\* object and the entries are those of the artifact, or none when it cannot be
\* read or parsed.  initialize returns success; the server goes on to await
\* getAllDocuments.
loadIndex_readFile(s, t, io) ==
  LET st == readStatus(s.indexFile, BadIndex, io)
      s0 == [s EXCEPT !.th[t].read = Spread(s.th[t].read, [index |-> st]),
                      !.faults = IF st = "unreadable" THEN s.faults + 1 ELSE s.faults]
  IN IF st = "data"
     THEN [s0 EXCEPT !.index = Some(The(s.indexFile).idx),
                     !.documents = MapFrom(The(s.indexFile).docs),
                     !.th[t].pc = "getAllDocuments"]
     ELSE [s0 EXCEPT !.index = None, !.documents = <<>>,
                     !.th[t].pc = "getAllDocuments"]

(***************************************************************************)
(* DocumentStore                                                           *)
(*                                                                         *)
(* k is what the clock does while a piece of code runs: k.k1 milliseconds  *)
(* pass before the first new Date(), k.k2 between the first and the second.*)
(***************************************************************************)
\* saveMetadata makes one write, of Array.from(this.metadata.values()) as it is
\* when saveMetadata is called.
saveMetadataData(s) == Some(s.metadata)

\* The Document addDocument constructs.
newDocument(id, filePath, content, type, meta, createdAt, updatedAt) ==
  LET filename == basename(filePath)
      tag0 == IF Has(meta, "tags") /\ Len(meta.tags) > 0 THEN meta.tags[1] ELSE <<>>
  IN [id |-> id,
      \* metadata?.tags?.[0] || filename: an empty string is falsy
      title |-> IF tag0 # <<>> THEN tag0 ELSE filename,
      content |-> content,
      path |-> filePath,
      type |-> type,
      metadata |-> Spread([createdAt |-> createdAt,
                           updatedAt |-> updatedAt,
                           size |-> byteLength(content),
                           wordCount |-> wordCount(content),
                           charCount |-> StrLen(content)],
                          meta)]

\* The Document updateDocument constructs from the stored one and the updates.
\* updateDocument adding the tags of the updates to those the document has
updatedDocument_MergeTags(existingDoc, updates, updatedAt) ==
  Spread(Spread(existingDoc, updates),
         [id |-> existingDoc.id,
          metadata |->
            Spread(Spread(existingDoc.metadata,
                          IF Has(updates, "metadata")
                          THEN [tags |-> (IF Has(existingDoc.metadata, "tags")
                                          THEN existingDoc.metadata.tags ELSE <<>>)
                                           \o updates.metadata.tags]
                          ELSE Empty),
                   [updatedAt |-> updatedAt])])

updatedDocument(existingDoc, updates, updatedAt) ==
  Spread(Spread(existingDoc, updates),
         [id |-> existingDoc.id,
          metadata |-> Spread(Spread(existingDoc.metadata,
                                     IF Has(updates, "metadata") THEN updates.metadata
                                     ELSE Empty),
                              [updatedAt |-> updatedAt])])

\* the handlers of update_document and of the changed event going on without
\* the call of SearchIndex.updateDocument
After_updateDocument_NoIndex(s, t, ok) ==
  LET h == s.th[t] IN
  CASE h.op = "add_document" ->
         LET doc == IF ok THEN [The(h.doc) EXCEPT !.title = h.title] ELSE The(h.doc)
         IN Index_addDocument([s EXCEPT !.th[t].doc = Some(doc),
                                        !.failed = s.failed \/ ~ok], t, doc)
    [] OTHER -> Finish(s, t, ok)

\* After updateDocument has returned to the handler.
After_updateDocument(s, t, ok) ==
  LET h == s.th[t] IN
  CASE h.op = "add_document" ->
         \* if (updateResult.success) doc.title = title; then the index call
         LET doc == IF ok THEN [The(h.doc) EXCEPT !.title = h.title] ELSE The(h.doc)
         IN Index_addDocument([s EXCEPT !.th[t].doc = Some(doc),
                                        !.failed = s.failed \/ ~ok], t, doc)
    [] h.op \in {"update_document", "handleFileChanged"} ->
         IF ok THEN Index_addDocument(s, t, The(h.upd)) ELSE Finish(s, t, FALSE)
    [] OTHER -> Finish(s, t, ok)

\* updateDocument without its check that the id is known: an unknown id is
\* created from the updates
Store_updateDocument_Upsert(s, t, id, updates, k) ==
  LET at == s.now + k.k1
      existingDoc == IF MapHas(s.metadata, id) THEN MapGet(s.metadata, id)
                     ELSE [id |-> id, metadata |-> Empty]
      updatedDoc == updatedDocument(existingDoc, updates, at)
  IN [s EXCEPT !.now = at,
               !.th[t].id = id,
               !.th[t].upd = Some(updatedDoc),
               !.th[t].pc = "updateDocument_writeFile"]

\* DocumentStore.updateDocument(id, updates) up to its first await.
Store_updateDocument(s, t, id, updates, k) ==
  IF ~MapHas(s.metadata, id)
  THEN After_updateDocument([s EXCEPT !.th[t].id = id], t, FALSE)
  ELSE LET at == s.now + k.k1
           updatedDoc == updatedDocument(MapGet(s.metadata, id), updates, at)
       IN [s EXCEPT !.now = at,
                    !.th[t].id = id,
                    !.th[t].upd = Some(updatedDoc),
                    !.th[t].pc = "updateDocument_writeFile"]

\* fs.writeFile(docPath, updatedDoc) completes; then metadata.set and the call
\* of saveMetadata.
updateDocument_writeFile(s, t, io) ==
  LET h == s.th[t] IN
  IF io
  THEN LET s1 == [s EXCEPT !.slots = Spread(s.slots, h.id :> The(h.upd)),
                           !.metadata = MapSet(s.metadata, h.id, The(h.upd))]
       IN [s1 EXCEPT !.th[t].pc = "updateDocument_saveMetadata",
                     !.th[t].snap = saveMetadataData(s1)]
  ELSE After_updateDocument([s EXCEPT !.faults = s.faults + 1], t, FALSE)

\* fs.writeFile(metadataPath, ...) of updateDocument completes.
updateDocument_saveMetadata(s, t, io) ==
  IF io THEN After_updateDocument([s EXCEPT !.manifest = s.th[t].snap], t, TRUE)
  ELSE After_updateDocument([s EXCEPT !.faults = s.faults + 1], t, FALSE)

\* After addDocument has returned to the handler.
After_addDocument(s, t, ok, k) ==
  LET h == s.th[t]
      doc == The(h.doc)
  IN
  CASE h.op = "add_document" ->
         IF ~ok THEN Finish(s, t, FALSE)
         ELSE IF h.title # <<>> /\ h.title # doc.title
              THEN Store_updateDocument(s, t, doc.id, [title |-> h.title], k)
              ELSE Index_addDocument(s, t, doc)
    [] h.op = "handleFileAdded" ->
         IF ok THEN Index_addDocument(s, t, doc) ELSE Finish(s, t, FALSE)
    [] OTHER -> Finish(s, t, ok)

\* DocumentStore.addDocument(filePath, content, type, metadata) up to its first
\* await.
Store_addDocument(s, t, filePath, content, type, meta, k) ==
  LET createdAt == s.now + k.k1
      updatedAt == createdAt + k.k2
      doc == newDocument(s.nextId, filePath, content, type, meta, createdAt, updatedAt)
  IN [s EXCEPT !.nextId = s.nextId + 1,
               !.now = updatedAt,
               !.th[t].doc = Some(doc),
               !.th[t].id = doc.id,
               !.th[t].pc = "addDocument_writeFile"]

\* fs.writeFile(docPath, doc) completes; then metadata.set and the call of
\* saveMetadata.
addDocument_writeFile(s, t, io, k) ==
  LET h == s.th[t] IN
  IF io
  THEN LET s1 == [s EXCEPT !.slots = Spread(s.slots, h.id :> The(h.doc)),
                           !.metadata = MapSet(s.metadata, h.id, The(h.doc))]
       IN [s1 EXCEPT !.th[t].pc = "addDocument_saveMetadata",
                     !.th[t].snap = saveMetadataData(s1)]
  ELSE After_addDocument([s EXCEPT !.faults = s.faults + 1], t, FALSE, k)

\* fs.writeFile(metadataPath, ...) of addDocument completes.
addDocument_saveMetadata(s, t, io, k) ==
  IF io THEN After_addDocument([s EXCEPT !.manifest = s.th[t].snap], t, TRUE, k)
  ELSE After_addDocument([s EXCEPT !.faults = s.faults + 1], t, FALSE, k)

\* After deleteDocument has returned to the handler.
After_deleteDocument(s, t, ok) ==
  LET h == s.th[t] IN
  IF h.op \in {"delete_document", "handleFileDeleted"}
  THEN IF ok THEN Index_removeDocument(s, t, h.id) ELSE Finish(s, t, FALSE)
  ELSE Finish(s, t, ok)

\* DocumentStore.deleteDocument(id) up to its first await.
Store_deleteDocument(s, t, id) ==
  IF ~MapHas(s.metadata, id)
  THEN After_deleteDocument([s EXCEPT !.th[t].id = id], t, FALSE)
  ELSE [s EXCEPT !.th[t].id = id,
                 !.th[t].doc = Some(MapGet(s.metadata, id)),
                 !.th[t].pc = "deleteDocument_unlink"]

\* A function without the key id.
Without(f, id) == [x \in (DOMAIN f) \ {id} |-> f[x]]

\* fs.unlink(docPath) completes (a failure is only logged); then
\* metadata.delete and the call of saveMetadata.
deleteDocument_unlink(s, t, io) ==
  LET h == s.th[t]
      s1 == IF io THEN [s EXCEPT !.slots = Without(s.slots, h.id)]
            ELSE [s EXCEPT !.faults = s.faults + 1]
      s2 == [s1 EXCEPT !.metadata = MapDelete(s1.metadata, h.id)]
  IN [s2 EXCEPT !.th[t].pc = "deleteDocument_saveMetadata",
                !.th[t].snap = saveMetadataData(s2)]

\* fs.writeFile(metadataPath, ...) of deleteDocument completes.
deleteDocument_saveMetadata(s, t, io) ==
  IF io THEN After_deleteDocument([s EXCEPT !.manifest = s.th[t].snap], t, TRUE)
  ELSE After_deleteDocument([s EXCEPT !.faults = s.faults + 1], t, FALSE)

\* After the getDocument calls of the handler have all returned.
After_getDocument(s, t) ==
  LET h == s.th[t] IN
  IF h.op = "delete_document" THEN Store_deleteDocument(s, t, h.id)
  ELSE IF h.op = "getDocument" THEN Finish(s, t, h.ok)
  ELSE Finish(s, t, TRUE)

\* getDocument returns { success: false } to a caller that keeps the result.
NotFound(s, t) ==
  IF s.th[t].op = "getDocument" THEN [s EXCEPT !.th[t].ok = FALSE] ELSE s

\* DocumentStore.getDocument(id) up to its first await, for each id of ids
\* (search_documents makes the calls of all its hits before it awaits any).
Store_getDocument(s, t, ids) ==
  LET known == {id \in ids : MapHas(s.metadata, id)} IN
  IF known = {} THEN After_getDocument(NotFound(s, t), t)
  ELSE [s EXCEPT !.th[t].pc = "getDocument", !.th[t].acc = known]

\* The getDocument calls of handler t that are suspended are all done.
getDocument_settled(s, t) ==
  IF s.th[t].acc = {} /\ s.th[t].saves = {} THEN After_getDocument(s, t) ELSE s

\* getDocument that reports a missing file without evicting the entry
getDocument_access_NoEvict(s, t, id, io) ==
  LET s0 == [s EXCEPT !.th[t].acc = s.th[t].acc \ {id}] IN
  IF io /\ id \in DOMAIN s.slots
  THEN getDocument_settled(s0, t)
  ELSE getDocument_settled(NotFound(s0, t), t)

\* fs.access(docPath) of getDocument(id) completes: the record is returned, or
\* the entry is evicted and saveMetadata called.
getDocument_access(s, t, id, io) ==
  LET s0 == [s EXCEPT !.th[t].acc = s.th[t].acc \ {id}] IN
  IF io /\ id \in DOMAIN s.slots
  THEN getDocument_settled(s0, t)
  ELSE LET s1 == [NotFound(s0, t) EXCEPT
                    !.metadata = MapDelete(s0.metadata, id),
                    !.faults = IF io THEN s0.faults ELSE s0.faults + 1]
       IN [s1 EXCEPT !.th[t].saves = s1.th[t].saves \cup {saveMetadataData(s1)}]

\* getDocument without its outer catch: the failure of the saveMetadata of an
\* eviction is not turned into a result, the promise of getDocument is rejected
getDocument_saveMetadata_Rethrow(s, t, snap, io) ==
  LET s0 == [s EXCEPT !.th[t].saves = s.th[t].saves \ {snap}] IN
  IF io THEN getDocument_settled([s0 EXCEPT !.manifest = snap], t)
  ELSE [s0 EXCEPT !.faults = s0.faults + 1, !.th[t].pc = "rejected"]

\* fs.writeFile(metadataPath, ...) of an evicting getDocument completes; its
\* failure is rethrown by saveMetadata and caught by getDocument.
getDocument_saveMetadata(s, t, snap, io) ==
  LET s0 == [s EXCEPT !.th[t].saves = s.th[t].saves \ {snap}] IN
  IF io THEN getDocument_settled([s0 EXCEPT !.manifest = snap], t)
  ELSE getDocument_settled([s0 EXCEPT !.faults = s0.faults + 1], t)

(***************************************************************************)
(* DocumentProcessor (the Content Extractor), as far as the engine sees it *)
(***************************************************************************)
\* the metadata of a result of processTxt, with the common metadata
\* processFile adds: the file holds content as it is (nothing to trim), was
\* last modified at time 0 and is processed at time at
processMetadata(filePath, content, at) ==
  Spread([encoding |-> <<"u", "t", "f", "-", "8">>],
         [originalPath |-> filePath,
          fileSize |-> byteLength(content),
          fileModified |-> 0,
          processedAt |-> at])

\* the results processFile(filePath) can resolve to when the file can hold any
\* of contents: a failure, or the content, type and metadata of the file
processResults(filePath, contents, at) ==
  {None} \cup
  {Some([content |-> c, type |-> typeOf(filePath),
         metadata |-> processMetadata(filePath, c, at)]) : c \in contents}

(***************************************************************************)
(* FileWatcher handlers and tool handlers: what follows processFile and    *)
(* getDocumentByPath                                                       *)
(***************************************************************************)
\* a handler without its try/catch and its test of processResult.success: the
\* failure of processFile leaves its promise rejected, and the handler never
\* returns
processFile_Throws(s, t, res, k) ==
  LET h == s.th[t] IN
  IF res = None THEN [s EXCEPT !.th[t].pc = "thrown"]
  ELSE
  LET r == The(res) IN
  CASE h.op = "add_document" ->
         Store_addDocument(s, t, h.path, r.content, r.type,
                           Spread([tags |-> IF IsSome(h.tags) THEN The(h.tags) ELSE <<>>],
                                  r.metadata), k)
    [] OTHER ->
         Store_addDocument([s EXCEPT !.th[t].pre = None], t, h.path,
                           r.content, r.type, r.metadata, k)

\* processor.processFile(filePath) resolves to res.
processFile(s, t, res, k) ==
  LET h == s.th[t] IN
  IF res = None THEN Finish(s, t, FALSE)
  ELSE
  LET r == The(res) IN
  CASE h.op = "add_document" ->
         \* { tags: tags || [], ...metadata }
         Store_addDocument(s, t, h.path, r.content, r.type,
                           Spread([tags |-> IF IsSome(h.tags) THEN The(h.tags) ELSE <<>>],
                                  r.metadata), k)
    [] h.op = "handleFileAdded" ->
         Store_addDocument([s EXCEPT !.th[t].pre = None], t, h.path,
                           r.content, r.type, r.metadata, k)
    [] OTHER ->
         \* handleFileChanged; its own new Date() is read first
         LET doc == The(h.doc)
             at == s.now + k.k1
         IN Store_updateDocument([s EXCEPT !.now = at], t, doc.id,
              [content |-> r.content,
               metadata |-> Spread(Spread(doc.metadata, r.metadata),
                                   [updatedAt |-> at])],
              [k1 |-> k.k2, k2 |-> 0])

\* a scan that goes on to the last document whose path is filePath
firstByPath_Last(m, filePath) ==
  LET hits == {i \in 1..Len(m) : m[i].path = filePath} IN
  IF hits = {} THEN None
  ELSE Some(m[CHOOSE i \in hits : \A j \in hits : i >= j])

\* The first document in iteration order whose path is filePath.
firstByPath(m, filePath) ==
  LET hits == {i \in 1..Len(m) : m[i].path = filePath} IN
  IF hits = {} THEN None
  ELSE Some(m[CHOOSE i \in hits : \A j \in hits : i <= j])

RECURSIVE Store_getDocumentByPath(_, _, _)

\* After getDocumentByPath has returned to the handler.
After_getDocumentByPath(s, t, ok) ==
  LET h == s.th[t] IN
  CASE h.op = "handleFileAdded" ->
         IF ok THEN Finish(s, t, TRUE)
         ELSE [s EXCEPT !.th[t].pc = "processFile", !.th[t].doc = None]
    [] h.op = "handleFileChanged" ->
         IF ok THEN [s EXCEPT !.th[t].pc = "processFile"]
         ELSE \* await this.handleFileAdded(filePath)
              Store_getDocumentByPath([s EXCEPT !.th[t].op = "handleFileAdded",
                                                !.th[t].doc = None,
                                                !.th[t].pre = Some(WorldOf(s))],
                                      t, h.path)
    [] h.op = "getDocumentByPath" -> Finish(s, t, ok)
    [] OTHER ->
         \* handleFileDeleted
         IF ok THEN Store_deleteDocument(s, t, The(h.doc).id)
         ELSE Finish([s EXCEPT !.th[t].doc = None], t, TRUE)

\* DocumentStore.getDocumentByPath(filePath) up to its first await.
Store_getDocumentByPath(s, t, filePath) ==
  LET hit == firstByPath(s.metadata, filePath) IN
  IF hit = None THEN After_getDocumentByPath(s, t, FALSE)
  ELSE [s EXCEPT !.th[t].doc = hit, !.th[t].pc = "getDocumentByPath_access"]

\* getDocumentByPath whose catch drops the index entry of the record too
getDocumentByPath_access_Unindex(s, t, io) ==
  LET id == The(s.th[t].doc).id IN
  IF io /\ id \in DOMAIN s.slots
  THEN After_getDocumentByPath(s, t, TRUE)
  ELSE LET s1 == [s EXCEPT !.metadata = MapDelete(s.metadata, id),
                           !.documents = MapDelete(s.documents, id),
                           !.faults = IF io THEN s.faults ELSE s.faults + 1]
       IN [s1 EXCEPT !.th[t].pc = "getDocumentByPath_saveMetadata",
                     !.th[t].snap = saveMetadataData(s1)]

\* fs.access(docPath) of getDocumentByPath completes.
getDocumentByPath_access(s, t, io) ==
  LET id == The(s.th[t].doc).id IN
  IF io /\ id \in DOMAIN s.slots
  THEN After_getDocumentByPath(s, t, TRUE)
  ELSE LET s1 == [s EXCEPT !.metadata = MapDelete(s.metadata, id),
                           !.faults = IF io THEN s.faults ELSE s.faults + 1]
       IN [s1 EXCEPT !.th[t].pc = "getDocumentByPath_saveMetadata",
                     !.th[t].snap = saveMetadataData(s1)]

\* fs.writeFile(metadataPath, ...) of an evicting getDocumentByPath completes;
\* the call returns a failed result either way.
getDocumentByPath_saveMetadata(s, t, io) ==
  IF io THEN After_getDocumentByPath([s EXCEPT !.manifest = s.th[t].snap], t, FALSE)
  ELSE After_getDocumentByPath([s EXCEPT !.faults = s.faults + 1], t, FALSE)

(***************************************************************************)
(* Startup.  The process starts with the in-memory state of the            *)
(* constructors and runs initialize(): DocumentStore.initialize (mkdir,    *)
(* loadMetadata), SearchIndex.initialize (loadIndex), getAllDocuments and  *)
(* rebuildFromDocuments.                                                   *)
(***************************************************************************)
\* validateDocument with one more required field, tags
validateDocument_NeedsTags(doc) ==
  /\ \A f \in {"id", "title", "content", "path", "type", "metadata"} : Has(doc, f)
  /\ \A f \in {"createdAt", "updatedAt", "size", "tags"} : Has(doc.metadata, f)

\* DocumentStore.validateDocument(doc): the fields it tests are there (the
\* values the store writes have the types it tests for)
validateDocument(doc) ==
  /\ \A f \in {"id", "title", "content", "path", "type", "metadata"} : Has(doc, f)
  /\ \A f \in {"createdAt", "updatedAt", "size"} : Has(doc.metadata, f)

\* the process starts: new DocumentStore(dataPath), new SearchIndex(), and
\* initialize() up to the first await of DocumentStore.initialize
Server_initialize(s, t) ==
  [s EXCEPT !.metadata = <<>>, !.documents = <<>>, !.index = None,
            !.th[t].pc = "initialize_mkdir"]

\* the three fs.mkdir calls complete; a failure makes DocumentStore.initialize
\* return a failed result, and initialize throw
initialize_mkdir(s, t, io) ==
  IF io THEN [s EXCEPT !.th[t].pc = "loadMetadata_readFile",
                       !.dirs = s.dirs \cup initializeDirs(s.process)]
  ELSE Finish([s EXCEPT !.faults = s.faults + 1], t, FALSE)

\* fs.readFile(metadataPath) completes and loadMetadata runs to its end: the
\* valid documents of the manifest are set in the map, which is empty when the
\* manifest cannot be read or parsed.  DocumentStore.initialize returns
\* success and SearchIndex.initialize is called.
loadMetadata_readFile(s, t, io) ==
  LET st == readStatus(s.manifest, BadManifest, io)
      s0 == [s EXCEPT !.th[t].read = Spread(s.th[t].read, [manifest |-> st]),
                      !.faults = IF st = "unreadable" THEN s.faults + 1 ELSE s.faults]
  IN IF st = "data"
     THEN Index_initialize(
            [s0 EXCEPT !.metadata =
                MapFrom(s.metadata \o SelectSeq(The(s.manifest), validateDocument))], t)
     ELSE Index_initialize([s0 EXCEPT !.metadata = <<>>], t)

\* getAllDocuments returns the documents of the map and rebuildFromDocuments
\* is called with them
initialize_getAllDocuments(s, t) == Index_rebuildFromDocuments(s, t, s.metadata)

(***************************************************************************)
(* The inputs of the handlers.  A run is explored for a set of inputs M:   *)
(* how many handlers can be in flight together, how many I/O calls can     *)
(* fail, how far the clock can advance, and the arguments of the calls.    *)
(***************************************************************************)
Ids == 1..MaxIds

InFlight == BagToSet(th)

\* what the clock can do during one step
Ticks(M) ==
  {kk \in [k1 : 0..1, k2 : 0..1] : now + kk.k1 + kk.k2 <= M.clock}

NoTick == [k1 |-> 0, k2 |-> 0]

\* the outcomes of the I/O call a step completes: TRUE is success
Ios(M) == IF faults < M.faults THEN {TRUE, FALSE} ELSE {TRUE}

\* the outcomes of fs.access: it fails when the file is missing, and in the
\* runs with M.accessFaults for another reason too
AccessIos(M) == IF M.accessFaults THEN Ios(M) ELSE {TRUE}

\* the limit search_documents passes on: Math.min(limit, 50)
SearchLimitCap == 50

\* how many handlers in flight have yet to call nanoid()
Adders ==
  BagCardinality(BagOfAll(LAMBDA h : h,
    [h \in {x \in InFlight :
              /\ x.op \in {"add_document", "handleFileAdded", "handleFileChanged"}
              /\ x.pc \in {"processFile", "getDocumentByPath_access",
                            "getDocumentByPath_saveMetadata"}} |-> th[h]]))

IdsLeft == nextId + Adders <= MaxIds

\* a new handler can start
CanStart(M) == BagCardinality(th) < M.inFlight /\ calls < M.calls

\* the store as a call finds it
StoreNow == Some([metadata |-> metadata, slots |-> slots, manifest |-> manifest])

\* the state a new handler of kind op starts in
New(op) == St([IdleThread EXCEPT !.op = op])

(***************************************************************************)
(* Initial state: a fresh data directory after initialize().               *)
(***************************************************************************)
Fresh ==
  /\ metadata = <<>>
  /\ slots = <<>>
  /\ manifest = None
  /\ documents = <<>>
  /\ index = None
  /\ indexFile = None
  /\ nextId = 1
  /\ now = 0
  /\ faults = 0
  /\ th = EmptyBag
  /\ calls = 0
  /\ failed = FALSE
  /\ deleted = {}
  /\ addedRuns = 0

Init ==
  /\ Fresh
  /\ process = DefaultProcess
  /\ dirs = initializeDirs(process)

(***************************************************************************)
(* Tool handlers (CallToolRequestSchema), from the request to the first    *)
(* await.                                                                  *)
(***************************************************************************)
add_document(M, filePath, tags, title) ==
  /\ CanStart(M)
  /\ IdsLeft
  /\ IF ~isSupported(filePath) THEN UNCHANGED vars
     ELSE Becomes(IdleThread,
                  [New("add_document") EXCEPT !.th[me].pc = "processFile",
                                              !.th[me].path = filePath,
                                              !.th[me].tags = tags,
                                              !.th[me].title = title])

\* the results the search_documents tool lists: those of the search it makes
\* (the enrichment maps each result to one result)
search_documents_results(s, query, limit) ==
  searchResults(s, query, Min(limit, SearchLimitCap))

search_documents(M, query, limit) ==
  /\ CanStart(M)
  /\ LET res == search_documents_results(New("search_documents"), query, limit)
         hits == [i \in 1..Len(res) |-> res[i].id]
     IN Becomes(IdleThread,
                Store_getDocument(New("search_documents"), me,
                                  {hits[i] : i \in 1..Len(hits)}))

get_document(M, id) ==
  /\ CanStart(M)
  /\ Becomes(IdleThread,
             Store_getDocument([New("get_document") EXCEPT !.th[me].id = id], me, {id}))

\* if (title) updates.title = title; if (tags) updates.metadata = { tags }
toolUpdates(title, tags) ==
  Spread(IF title # <<>> THEN [title |-> title] ELSE Empty,
         IF IsSome(tags) THEN [metadata |-> [tags |-> The(tags)]] ELSE Empty)

update_document(M, id, title, tags) ==
  /\ CanStart(M)
  /\ \E k \in Ticks(M) :
       Becomes(IdleThread,
               Store_updateDocument([New("update_document") EXCEPT
                                       !.th[me].tags = tags,
                                       !.th[me].pre = StoreNow],
                                    me, id, toolUpdates(title, tags), k))

delete_document(M, id) ==
  /\ CanStart(M)
  /\ Becomes(IdleThread,
             Store_getDocument([New("delete_document") EXCEPT
                                  !.th[me].id = id, !.addedRuns = 0], me, {id}))

(***************************************************************************)
(* FileWatcher handlers, from the event to the first await.                *)
(***************************************************************************)
handleFileAdded(M, filePath) ==
  /\ CanStart(M)
  /\ IdsLeft
  /\ IF ~isSupported(filePath) THEN UNCHANGED vars
     ELSE Becomes(IdleThread,
                  Store_getDocumentByPath(
                    [New("handleFileAdded") EXCEPT !.th[me].path = filePath,
                                                   !.th[me].pre = Some(World)],
                    me, filePath))

handleFileChanged(M, filePath) ==
  /\ CanStart(M)
  /\ IdsLeft
  /\ IF ~isSupported(filePath) THEN UNCHANGED vars
     ELSE Becomes(IdleThread,
                  Store_getDocumentByPath(
                    [New("handleFileChanged") EXCEPT !.th[me].path = filePath,
                                                     !.th[me].event = "changed",
                                                     !.th[me].pre = Some(World)],
                    me, filePath))

handleFileDeleted(M, filePath) ==
  /\ CanStart(M)
  /\ Becomes(IdleThread,
             Store_getDocumentByPath(
               [New("handleFileDeleted") EXCEPT !.th[me].path = filePath,
                                                !.addedRuns = 0],
               me, filePath))

(***************************************************************************)
(* Calls of the DocumentStore methods by a caller of its own, from the     *)
(* call to the first await.  pre is the store as the call finds it.        *)
(***************************************************************************)
call_addDocument(M, filePath, content, meta) ==
  /\ CanStart(M)
  /\ IdsLeft
  /\ \E k \in Ticks(M) :
       Becomes(IdleThread,
               Store_addDocument([New("addDocument") EXCEPT !.th[me].pre = StoreNow],
                                 me, filePath, content, typeOf(filePath), meta, k))

call_updateDocument(M, id, updates) ==
  /\ CanStart(M)
  /\ \E k \in Ticks(M) :
       Becomes(IdleThread,
               Store_updateDocument([New("updateDocument") EXCEPT !.th[me].pre = StoreNow],
                                    me, id, updates, k))

call_deleteDocument(M, id) ==
  /\ CanStart(M)
  /\ Becomes(IdleThread,
             Store_deleteDocument([New("deleteDocument") EXCEPT !.th[me].pre = StoreNow],
                                  me, id))

call_getDocument(M, id) ==
  /\ CanStart(M)
  /\ Becomes(IdleThread,
             Store_getDocument([New("getDocument") EXCEPT !.th[me].pre = StoreNow,
                                                          !.th[me].id = id],
                               me, {id}))

call_getDocumentByPath(M, filePath) ==
  /\ CanStart(M)
  /\ Becomes(IdleThread,
             Store_getDocumentByPath(
               [New("getDocumentByPath") EXCEPT !.th[me].pre = StoreNow,
                                                !.th[me].path = filePath],
               me, filePath))

\* Somebody else deletes the file of a document in the data directory.
ExternalUnlink(id) ==
  /\ th = EmptyBag
  /\ id \in DOMAIN slots
  /\ slots' = Without(slots, id)
  /\ UNCHANGED <<metadata, manifest, documents, index, indexFile, nextId, now,
                 faults, th, calls, failed, deleted, addedRuns, process, dirs>>

\* A caller invokes a method of SearchIndex directly.
call_index_addDocument(M, doc) ==
  /\ CanStart(M)
  /\ Becomes(IdleThread,
             Index_addDocument([New("index.addDocument") EXCEPT !.th[me].id = doc.id,
                                                                !.th[me].doc = Some(doc)],
                               me, doc))

call_index_removeDocument(M, id) ==
  /\ CanStart(M)
  /\ Becomes(IdleThread,
             Index_removeDocument(
               [New("index.removeDocument") EXCEPT
                  !.th[me].id = id,
                  \* the entry the call finds, if any
                  !.th[me].doc = IF MapHas(documents, id)
                                 THEN Some(MapGet(documents, id)) ELSE None],
               me, id))

call_rebuildFromDocuments(M, docs) ==
  /\ CanStart(M)
  /\ Becomes(IdleThread, Index_rebuildFromDocuments(New("rebuildFromDocuments"), me, docs))

call_clearIndex(M) ==
  /\ CanStart(M)
  /\ Becomes(IdleThread, Index_clearIndex(New("clearIndex"), me))

\* search has no await: it returns at once
call_search(M, query, limit) ==
  /\ CanStart(M)
  /\ Becomes(IdleThread,
             Finish([New("search") EXCEPT !.th[me].res = searchResults(New("search"), query, limit)],
                    me, TRUE))

\* The process has ended and is started again.
Restart(M) ==
  /\ CanStart(M)
  /\ th = EmptyBag
  /\ Becomes(IdleThread,
             Server_initialize([New("initialize") EXCEPT !.th[me].pre = StoreNow], me))

\* While no handler runs, somebody else removes an artifact or overwrites it
\* with something that is not JSON.
DamageManifest ==
  /\ th = EmptyBag
  /\ \E f \in {None, Some(BadManifest)} : f # manifest /\ manifest' = f
  /\ UNCHANGED <<metadata, slots, documents, index, indexFile, nextId, now,
                 faults, th, calls, failed, deleted, addedRuns, process, dirs>>

\* While no handler runs, somebody else edits the manifest: one of its
\* entries loses its title.
TamperManifest ==
  /\ th = EmptyBag
  /\ manifest # None /\ manifest # Some(BadManifest)
  /\ \E i \in 1..Len(The(manifest)) :
       /\ Has(The(manifest)[i], "title")
       /\ manifest' = Some([The(manifest) EXCEPT
                              ![i] = [f \in (DOMAIN The(manifest)[i]) \ {"title"} |->
                                        The(manifest)[i][f]]])
  /\ UNCHANGED <<metadata, slots, documents, index, indexFile, nextId, now,
                 faults, th, calls, failed, deleted, addedRuns, process, dirs>>

DamageIndex ==
  /\ th = EmptyBag
  /\ \E f \in {None, Some(BadIndex)} : f # indexFile /\ indexFile' = f
  /\ UNCHANGED <<metadata, slots, manifest, documents, index, nextId, now,
                 faults, th, calls, failed, deleted, addedRuns, process, dirs>>

\* the caller is done with the result
Return ==
  \E h \in InFlight :
    /\ h.pc = "returned"
    /\ Becomes(h, [St(h) EXCEPT !.th[me] = IdleThread])

(***************************************************************************)
(* The steps of a suspended handler h: the I/O call it awaits completes    *)
(* and the handler runs to its next await or to its end.                   *)
(***************************************************************************)
Resume_processFile(M) ==
  \E h \in InFlight :
    /\ h.pc = "processFile"
    /\ \E res \in processResults(h.path, M.contents, now), k \in Ticks(M) :
         Becomes(h, processFile(St(h), me, res, k))

Resume_addDocument_writeFile(M) ==
  \E h \in InFlight :
    /\ h.pc = "addDocument_writeFile"
    /\ \E io \in Ios(M) : Becomes(h, addDocument_writeFile(St(h), me, io, NoTick))

Resume_addDocument_saveMetadata(M) ==
  \E h \in InFlight :
    /\ h.pc = "addDocument_saveMetadata"
    /\ \E io \in Ios(M), k \in Ticks(M) :
         Becomes(h, addDocument_saveMetadata(St(h), me, io, k))

Resume_updateDocument_writeFile(M) ==
  \E h \in InFlight :
    /\ h.pc = "updateDocument_writeFile"
    /\ \E io \in Ios(M) : Becomes(h, updateDocument_writeFile(St(h), me, io))

Resume_updateDocument_saveMetadata(M) ==
  \E h \in InFlight :
    /\ h.pc = "updateDocument_saveMetadata"
    /\ \E io \in Ios(M) : Becomes(h, updateDocument_saveMetadata(St(h), me, io))

Resume_deleteDocument_unlink(M) ==
  \E h \in InFlight :
    /\ h.pc = "deleteDocument_unlink"
    /\ \E io \in Ios(M) : Becomes(h, deleteDocument_unlink(St(h), me, io))

Resume_deleteDocument_saveMetadata(M) ==
  \E h \in InFlight :
    /\ h.pc = "deleteDocument_saveMetadata"
    /\ \E io \in Ios(M) : Becomes(h, deleteDocument_saveMetadata(St(h), me, io))

Resume_getDocument_access(M) ==
  \E h \in InFlight :
    /\ h.pc = "getDocument"
    /\ \E id \in h.acc, io \in AccessIos(M) :
         Becomes(h, getDocument_access(St(h), me, id, io))

Resume_getDocument_saveMetadata(M) ==
  \E h \in InFlight :
    /\ h.pc = "getDocument"
    /\ \E snap \in h.saves, io \in Ios(M) :
         Becomes(h, getDocument_saveMetadata(St(h), me, snap, io))

Resume_getDocumentByPath_access(M) ==
  \E h \in InFlight :
    /\ h.pc = "getDocumentByPath_access"
    /\ \E io \in AccessIos(M) : Becomes(h, getDocumentByPath_access(St(h), me, io))

Resume_getDocumentByPath_saveMetadata(M) ==
  \E h \in InFlight :
    /\ h.pc = "getDocumentByPath_saveMetadata"
    /\ \E io \in Ios(M) : Becomes(h, getDocumentByPath_saveMetadata(St(h), me, io))

Resume_saveIndex_writeFile(M) ==
  \E h \in InFlight :
    /\ h.pc = "saveIndex_writeFile"
    /\ \E io \in Ios(M) : Becomes(h, saveIndex_writeFile(St(h), me, io))

Resume_clearIndex_unlink(M) ==
  \E h \in InFlight :
    /\ h.pc = "clearIndex_unlink"
    /\ \E io \in Ios(M) : Becomes(h, clearIndex_unlink(St(h), me, io))

\* a read fails only when M says reads can fail
ReadIos(M) == IF M.readFaults THEN Ios(M) ELSE {TRUE}

Resume_initialize_mkdir(M) ==
  \E h \in InFlight :
    /\ h.pc = "initialize_mkdir"
    /\ \E io \in Ios(M) : Becomes(h, initialize_mkdir(St(h), me, io))

Resume_loadMetadata_readFile(M) ==
  \E h \in InFlight :
    /\ h.pc = "loadMetadata_readFile"
    /\ \E io \in ReadIos(M) : Becomes(h, loadMetadata_readFile(St(h), me, io))

Resume_loadIndex_readFile(M) ==
  \E h \in InFlight :
    /\ h.pc = "loadIndex_readFile"
    /\ \E io \in ReadIos(M) : Becomes(h, loadIndex_readFile(St(h), me, io))

Resume_initialize_getAllDocuments(M) ==
  \E h \in InFlight :
    /\ h.pc = "getAllDocuments"
    /\ Becomes(h, initialize_getAllDocuments(St(h), me))

\* Tool calls and watcher events arrive in any order and their handlers
\* interleave at their awaits.
Server(M) ==
  \/ \E p \in M.paths, g \in M.addTags, ti \in M.addTitles : add_document(M, p, g, ti)
  \/ \E q \in M.queries, n \in M.limits : search_documents(M, q, n)
  \/ \E id \in Ids : get_document(M, id)
  \/ \E id \in Ids, ti \in M.updateTitles, g \in M.updateTags :
       update_document(M, id, ti, g)
  \/ \E id \in Ids : delete_document(M, id)
  \/ \E p \in M.paths : handleFileAdded(M, p)
  \/ \E p \in M.paths : handleFileChanged(M, p)
  \/ \E p \in M.paths : handleFileDeleted(M, p)
  \/ Resume_processFile(M)
  \/ Resume_addDocument_writeFile(M)
  \/ Resume_addDocument_saveMetadata(M)
  \/ Resume_updateDocument_writeFile(M)
  \/ Resume_updateDocument_saveMetadata(M)
  \/ Resume_deleteDocument_unlink(M)
  \/ Resume_deleteDocument_saveMetadata(M)
  \/ Resume_getDocument_access(M)
  \/ Resume_getDocument_saveMetadata(M)
  \/ Resume_getDocumentByPath_access(M)
  \/ Resume_getDocumentByPath_saveMetadata(M)
  \/ Resume_saveIndex_writeFile(M)

\* A caller of the DocumentStore methods.
Caller(M) ==
  \/ \E p \in M.paths, c \in M.contents, o \in M.overrides :
       call_addDocument(M, p, c, o)
  \/ \E id \in Ids, u \in M.updates : call_updateDocument(M, id, u)
  \/ \E id \in Ids : call_deleteDocument(M, id)
  \/ Return

(***************************************************************************)
(* Spec: handlers interleave at their awaits, every I/O call succeeds.     *)
(***************************************************************************)
Concurrent ==
  [inFlight |-> MaxInFlight, calls |-> MaxCalls, faults |-> 0, clock |-> 0,
   accessFaults |-> TRUE,
   contents |-> { <<"k">> },
   paths |-> {PathA, PathBin},
   addTags |-> {None}, addTitles |-> {<<>>},
   updateTags |-> {None}, updateTitles |-> {<<"T">>},
   queries |-> { <<"k">> }, limits |-> {50}]

Next == Server(Concurrent)

Spec == Init /\ [][Next]_vars

(***************************************************************************)
(* SpecSeq: one tool call or watcher event at a time; an I/O call can fail *)
(* and the clock advances.  SpecStore: the DocumentStore alone, one call   *)
(* of its methods at a time.                                               *)
(***************************************************************************)
Sequential ==
  [inFlight |-> 1, calls |-> MaxCalls, faults |-> MaxFaults, clock |-> MaxClock,
   accessFaults |-> TRUE,
   contents |-> { <<"k">>, <<"é", " ", "q">> },
   paths |-> {PathA, PathBin},
   addTags |-> {None, Some(<< <<"x">> >>)}, addTitles |-> {<<>>},
   updateTags |-> {None}, updateTitles |-> {<<"T">>},
   queries |-> { <<"k">> }, limits |-> {50}]

NextSeq == Server(Sequential)

SpecSeq == Init /\ [][NextSeq]_vars

Direct ==
  [inFlight |-> 1, calls |-> MaxCalls, faults |-> MaxFaults, clock |-> MaxClock,
   accessFaults |-> TRUE,
   contents |-> { <<"k">> },
   paths |-> {PathA},
   overrides |-> {Empty, [size |-> 0]},
   updates |-> {[path |-> PathB], [id |-> 2], [content |-> <<"é", " ", "q">>]}]

NextStore ==
  \/ Caller(Direct)
  \/ Resume_addDocument_writeFile(Direct)
  \/ Resume_addDocument_saveMetadata(Direct)
  \/ Resume_updateDocument_writeFile(Direct)
  \/ Resume_updateDocument_saveMetadata(Direct)
  \/ Resume_deleteDocument_unlink(Direct)
  \/ Resume_deleteDocument_saveMetadata(Direct)

SpecStore == Init /\ [][NextStore]_vars

(***************************************************************************)
(* SpecWatcher: the FileWatcher alone.  chokidar's events are dispatched   *)
(* without awaiting the handler of the event before, so the handlers       *)
(* interleave at their awaits.                                             *)
(***************************************************************************)
NextWatcher ==
  \/ \E p \in Concurrent.paths : handleFileAdded(Concurrent, p)
  \/ \E p \in Concurrent.paths : handleFileChanged(Concurrent, p)
  \/ \E p \in Concurrent.paths : handleFileDeleted(Concurrent, p)
  \/ Resume_processFile(Concurrent)
  \/ Resume_addDocument_writeFile(Concurrent)
  \/ Resume_addDocument_saveMetadata(Concurrent)
  \/ Resume_updateDocument_writeFile(Concurrent)
  \/ Resume_updateDocument_saveMetadata(Concurrent)
  \/ Resume_deleteDocument_unlink(Concurrent)
  \/ Resume_deleteDocument_saveMetadata(Concurrent)
  \/ Resume_getDocumentByPath_access(Concurrent)
  \/ Resume_getDocumentByPath_saveMetadata(Concurrent)
  \/ Resume_saveIndex_writeFile(Concurrent)

SpecWatcher == Init /\ [][NextWatcher]_vars

(***************************************************************************)
(* SpecLife: the DocumentStore alone over its life: documents are added,   *)
(* read and deleted, a document's file can be deleted from outside.  A     *)
(* write can fail; fs.access fails when the file is missing.               *)
(***************************************************************************)
Life ==
  [inFlight |-> 1, calls |-> MaxCalls, faults |-> MaxFaults, clock |-> 0,
   accessFaults |-> FALSE,
   contents |-> { <<"k">> },
   paths |-> {PathA},
   overrides |-> {Empty},
   updates |-> {[title |-> <<"T">>]}]

NextLife ==
  \/ \E p \in Life.paths, c \in Life.contents, o \in Life.overrides :
       call_addDocument(Life, p, c, o)
  \/ \E id \in Ids, u \in Life.updates : call_updateDocument(Life, id, u)
  \/ \E id \in Ids : call_deleteDocument(Life, id)
  \/ \E id \in Ids : call_getDocument(Life, id)
  \/ \E id \in Ids : ExternalUnlink(id)
  \/ Return
  \/ Resume_addDocument_writeFile(Life)
  \/ Resume_addDocument_saveMetadata(Life)
  \/ Resume_updateDocument_writeFile(Life)
  \/ Resume_updateDocument_saveMetadata(Life)
  \/ Resume_deleteDocument_unlink(Life)
  \/ Resume_deleteDocument_saveMetadata(Life)
  \/ Resume_getDocument_access(Life)
  \/ Resume_getDocument_saveMetadata(Life)

SpecLife == Init /\ [][NextLife]_vars

\* a Document as a caller of SearchIndex passes it (the contents used are
\* ASCII: the size in bytes is the length)
IndexDoc(id, title, content, tags) ==
  [id |-> id, title |-> title, content |-> content, path |-> PathA, type |-> "txt",
   metadata |-> [createdAt |-> 0, updatedAt |-> 0, size |-> StrLen(content),
                 tags |-> tags]]

DocK == IndexDoc(1, <<"a">>, <<"k">>, <<>>)
DocQ == IndexDoc(2, <<"b">>, <<"k", " ", "q">>, << <<"x">> >>)

\* a content with the word "kk" in the middle of two longer words
WideLen == 80
DocWide ==
  IndexDoc(1, <<"a">>,
           [i \in 1..WideLen |-> "x"] \o <<" ", "k", "k", " ">> \o [i \in 1..WideLen |-> "x"],
           <<>>)

\* SearchIndex alone, each of its methods called directly, one call at a time.
Indexing ==
  [inFlight |-> 1, calls |-> MaxCalls, faults |-> MaxFaults, clock |-> 0,
   accessFaults |-> TRUE,
   docs |-> {DocK, DocQ, DocWide},
   lists |-> {<<>>, <<DocQ, DocK>>},
   queries |-> { <<"k">>, <<"x">>, <<" ">>, <<"k", "k">> }, limits |-> {1, 10}]

IndexUser(M) ==
  \/ \E doc \in M.docs : call_index_addDocument(M, doc)
  \/ \E id \in Ids : call_index_removeDocument(M, id)
  \/ \E docs \in M.lists : call_rebuildFromDocuments(M, docs)
  \/ call_clearIndex(M)
  \/ \E q \in M.queries, n \in M.limits : call_search(M, q, n)
  \/ Return
  \/ Resume_saveIndex_writeFile(M)
  \/ Resume_clearIndex_unlink(M)

NextIndex == IndexUser(Indexing)

SpecIndex == Init /\ [][NextIndex]_vars

\* SearchIndex holding more entries than the cap of the search_documents tool,
\* searched with limits below, at and above the cap.
Many == [i \in 1..(SearchLimitCap + 2) |-> IndexDoc(i, <<"a">>, <<"k">>, <<>>)]

Limiting ==
  [inFlight |-> 1, calls |-> MaxCalls, faults |-> MaxFaults, clock |-> 0,
   accessFaults |-> TRUE,
   docs |-> {DocK},
   lists |-> {<<>>, Many},
   queries |-> { <<"k">> }, limits |-> {-1, 0, 1, SearchLimitCap + 1}]

NextLimit == IndexUser(Limiting)

SpecLimit == Init /\ [][NextLimit]_vars

\* SearchIndex given a document whose content is one character longer than
\* the cap.
DocLong == IndexDoc(2, <<"b">>, [i \in 1..(IndexContentCap + 1) |-> "k"], <<>>)

Capping ==
  [inFlight |-> 1, calls |-> MaxCalls, faults |-> MaxFaults, clock |-> 0,
   accessFaults |-> TRUE,
   docs |-> {DocK, DocQ, DocLong},
   lists |-> {<<>>, <<DocLong, DocK>>}]

NextCap ==
  \/ \E doc \in Capping.docs : call_index_addDocument(Capping, doc)
  \/ \E id \in Ids : call_index_removeDocument(Capping, id)
  \/ \E docs \in Capping.lists : call_rebuildFromDocuments(Capping, docs)
  \/ call_clearIndex(Capping)
  \/ Return
  \/ Resume_saveIndex_writeFile(Capping)
  \/ Resume_clearIndex_unlink(Capping)

SpecCap == Init /\ [][NextCap]_vars

\* The tools that add, retag and search documents, one call at a time.
Tagging ==
  [inFlight |-> 1, calls |-> MaxCalls, faults |-> MaxFaults, clock |-> 0,
   accessFaults |-> TRUE,
   contents |-> { <<"k">> }, paths |-> {PathA},
   addTags |-> {None, Some(<< <<"x">> >>)}, addTitles |-> {<<>>},
   updateTags |-> {Some(<< <<"y">> >>), Some(<< <<"y">>, <<"q">> >>)},
   updateTitles |-> {<<>>},
   queries |-> { <<"y">> }, limits |-> {10}]

NextTags ==
  \/ \E p \in Tagging.paths, g \in Tagging.addTags, ti \in Tagging.addTitles :
       add_document(Tagging, p, g, ti)
  \/ \E q \in Tagging.queries, n \in Tagging.limits : search_documents(Tagging, q, n)
  \/ \E id \in Ids, ti \in Tagging.updateTitles, g \in Tagging.updateTags :
       update_document(Tagging, id, ti, g)
  \/ Resume_processFile(Tagging)
  \/ Resume_addDocument_writeFile(Tagging)
  \/ Resume_addDocument_saveMetadata(Tagging)
  \/ Resume_updateDocument_writeFile(Tagging)
  \/ Resume_updateDocument_saveMetadata(Tagging)
  \/ Resume_getDocument_access(Tagging)
  \/ Resume_getDocument_saveMetadata(Tagging)
  \/ Resume_saveIndex_writeFile(Tagging)

SpecTags == Init /\ [][NextTags]_vars

\* The server is used through its tools, one call at a time, its artifacts
\* are damaged, and it is restarted.
Booting ==
  [inFlight |-> 1, calls |-> MaxCalls, faults |-> MaxFaults, clock |-> 0,
   accessFaults |-> FALSE, readFaults |-> TRUE,
   contents |-> { <<"k">> }, paths |-> {PathA},
   addTags |-> {None}, addTitles |-> {<<>>}]

NextBoot ==
  \/ \E p \in Booting.paths, g \in Booting.addTags, ti \in Booting.addTitles :
       add_document(Booting, p, g, ti)
  \/ \E id \in Ids : delete_document(Booting, id)
  \/ Restart(Booting)
  \/ DamageManifest
  \/ DamageIndex
  \/ Return
  \/ Resume_processFile(Booting)
  \/ Resume_addDocument_writeFile(Booting)
  \/ Resume_addDocument_saveMetadata(Booting)
  \/ Resume_deleteDocument_unlink(Booting)
  \/ Resume_deleteDocument_saveMetadata(Booting)
  \/ Resume_getDocument_access(Booting)
  \/ Resume_saveIndex_writeFile(Booting)
  \/ Resume_initialize_mkdir(Booting)
  \/ Resume_loadMetadata_readFile(Booting)
  \/ Resume_loadIndex_readFile(Booting)
  \/ Resume_initialize_getAllDocuments(Booting)

SpecBoot == Init /\ [][NextBoot]_vars

\* The store is changed by direct calls, one at a time, and the process is
\* restarted; the files are left alone and can be read.
Restarting ==
  [inFlight |-> 1, calls |-> MaxCalls, faults |-> MaxFaults, clock |-> MaxClock,
   accessFaults |-> FALSE, readFaults |-> FALSE,
   contents |-> { <<"k">> },
   paths |-> {PathA},
   overrides |-> {Empty, [tags |-> << <<"x">> >>]},
   updates |-> {[title |-> <<"T">>]}]

NextRestart ==
  \/ \E p \in Restarting.paths, c \in Restarting.contents, o \in Restarting.overrides :
       call_addDocument(Restarting, p, c, o)
  \/ \E id \in Ids, u \in Restarting.updates : call_updateDocument(Restarting, id, u)
  \/ \E id \in Ids : call_deleteDocument(Restarting, id)
  \/ Restart(Restarting)
  \/ Return
  \/ Resume_addDocument_writeFile(Restarting)
  \/ Resume_addDocument_saveMetadata(Restarting)
  \/ Resume_updateDocument_writeFile(Restarting)
  \/ Resume_updateDocument_saveMetadata(Restarting)
  \/ Resume_deleteDocument_unlink(Restarting)
  \/ Resume_deleteDocument_saveMetadata(Restarting)
  \/ Resume_initialize_mkdir(Restarting)
  \/ Resume_loadMetadata_readFile(Restarting)
  \/ Resume_loadIndex_readFile(Restarting)
  \/ Resume_initialize_getAllDocuments(Restarting)
  \/ Resume_saveIndex_writeFile(Restarting)

SpecRestart == Init /\ [][NextRestart]_vars

\* Every method of DocumentStore and of SearchIndex that returns a result is
\* called directly, one call at a time, and any of their I/O calls can fail.
Operating ==
  [inFlight |-> 1, calls |-> MaxCalls, faults |-> MaxFaults, clock |-> 0,
   accessFaults |-> TRUE,
   contents |-> { <<"k">> }, paths |-> {PathA},
   overrides |-> {Empty}, updates |-> {[title |-> <<"T">>]},
   docs |-> {DocK}, lists |-> {<<DocQ, DocK>>},
   queries |-> { <<"k">> }, limits |-> {10}]

NextOps ==
  \/ Caller(Operating)
  \/ \E id \in Ids : call_getDocument(Operating, id)
  \/ \E id \in Ids : ExternalUnlink(id)
  \/ IndexUser(Operating)
  \/ Resume_addDocument_writeFile(Operating)
  \/ Resume_addDocument_saveMetadata(Operating)
  \/ Resume_updateDocument_writeFile(Operating)
  \/ Resume_updateDocument_saveMetadata(Operating)
  \/ Resume_deleteDocument_unlink(Operating)
  \/ Resume_deleteDocument_saveMetadata(Operating)
  \/ Resume_getDocument_access(Operating)
  \/ Resume_getDocument_saveMetadata(Operating)

SpecOps == Init /\ [][NextOps]_vars

\* Documents, one of them with no content, are added by direct calls, the
\* manifest is edited, and the process is restarted.
Loading ==
  [inFlight |-> 1, calls |-> MaxCalls, faults |-> 0, clock |-> 0,
   accessFaults |-> FALSE, readFaults |-> FALSE,
   contents |-> { <<"k">>, <<>> },
   paths |-> {PathA, PathB},
   overrides |-> {Empty}]

NextLoad ==
  \/ \E p \in Loading.paths, c \in Loading.contents, o \in Loading.overrides :
       call_addDocument(Loading, p, c, o)
  \/ Restart(Loading)
  \/ TamperManifest
  \/ Return
  \/ Resume_addDocument_writeFile(Loading)
  \/ Resume_addDocument_saveMetadata(Loading)
  \/ Resume_initialize_mkdir(Loading)
  \/ Resume_loadMetadata_readFile(Loading)
  \/ Resume_loadIndex_readFile(Loading)
  \/ Resume_initialize_getAllDocuments(Loading)
  \/ Resume_saveIndex_writeFile(Loading)

SpecLoad == Init /\ [][NextLoad]_vars

\* The methods of SearchIndex called directly, a call starting while another
\* awaits its write; no write fails.
Racing ==
  [inFlight |-> MaxInFlight, calls |-> MaxCalls, faults |-> 0, clock |-> 0,
   accessFaults |-> TRUE,
   docs |-> {DocK, DocQ},
   lists |-> {<<DocQ, DocK>>},
   queries |-> { <<"k">> }, limits |-> {10}]

NextRace == IndexUser(Racing)

SpecRace == Init /\ [][NextRace]_vars

(***************************************************************************)
(* SpecConfig: the server of SpecBoot, started with DATA_PATH not set, set *)
(* to an absolute path or set to a relative one, from the directory of the *)
(* package or from another one.  The data directory is fresh and           *)
(* initialize() has run.                                                   *)
(***************************************************************************)
Processes ==
  [env : [DATA_PATH : {None, Some(<<"/", "srv", "docs">>), Some(<<".", "data">>),
                       Some(<<"/", "app", "data">>)}],
   cwd : {<<"/", "app">>, <<"/", "home">>}]

InitConfig ==
  /\ Fresh
  /\ process \in Processes
  /\ dirs = initializeDirs(process)

SpecConfig == InitConfig /\ [][NextBoot]_vars

(***************************************************************************)
(* SpecOverlap: callers of addDocument and updateDocument, a call starting *)
(* while another awaits a write; one update sets the title, another the    *)
(* content.  No write fails.                                               *)
(***************************************************************************)
Overlapping ==
  [inFlight |-> MaxInFlight, calls |-> MaxCalls, faults |-> 0, clock |-> 0,
   accessFaults |-> FALSE,
   contents |-> { <<"k">> }, paths |-> {PathA}, overrides |-> {Empty},
   updates |-> {[title |-> <<"T">>], [content |-> <<"q">>]}]

NextOverlap ==
  \/ \E p \in Overlapping.paths, c \in Overlapping.contents, o \in Overlapping.overrides :
       call_addDocument(Overlapping, p, c, o)
  \/ \E id \in Ids, u \in Overlapping.updates : call_updateDocument(Overlapping, id, u)
  \/ Return
  \/ Resume_addDocument_writeFile(Overlapping)
  \/ Resume_addDocument_saveMetadata(Overlapping)
  \/ Resume_updateDocument_writeFile(Overlapping)
  \/ Resume_updateDocument_saveMetadata(Overlapping)

SpecOverlap == Init /\ [][NextOverlap]_vars

(***************************************************************************)
(* SpecStats: the methods of SearchIndex called directly, a call starting  *)
(* while another awaits its write or its unlink, and the process started   *)
(* again while no call runs.  A write, a read or an unlink can fail.       *)
(***************************************************************************)
Observing ==
  [inFlight |-> MaxInFlight, calls |-> MaxCalls, faults |-> MaxFaults, clock |-> 0,
   accessFaults |-> TRUE, readFaults |-> TRUE,
   docs |-> {DocK, DocQ},
   lists |-> {<<>>, <<DocQ, DocK>>},
   queries |-> { <<"k">> }, limits |-> {10}]

NextStats ==
  \/ IndexUser(Observing)
  \/ Restart(Observing)
  \/ Resume_initialize_mkdir(Observing)
  \/ Resume_loadMetadata_readFile(Observing)
  \/ Resume_loadIndex_readFile(Observing)
  \/ Resume_initialize_getAllDocuments(Observing)

SpecStats == Init /\ [][NextStats]_vars

(***************************************************************************)
(* SpecLookup: callers of addDocument and getDocumentByPath, one call at a *)
(* time; a path can be added twice, a document's file can be deleted from  *)
(* outside, a write can fail; fs.access fails only when the file is        *)
(* missing.                                                                *)
(***************************************************************************)
LookingUp ==
  [inFlight |-> 1, calls |-> MaxCalls, faults |-> MaxFaults, clock |-> 0,
   accessFaults |-> FALSE,
   contents |-> { <<"k">> }, paths |-> {PathA, PathB}, overrides |-> {Empty}]

NextLookup ==
  \/ \E p \in LookingUp.paths, c \in LookingUp.contents, o \in LookingUp.overrides :
       call_addDocument(LookingUp, p, c, o)
  \/ \E p \in LookingUp.paths : call_getDocumentByPath(LookingUp, p)
  \/ \E id \in Ids : ExternalUnlink(id)
  \/ Return
  \/ Resume_addDocument_writeFile(LookingUp)
  \/ Resume_addDocument_saveMetadata(LookingUp)
  \/ Resume_getDocumentByPath_access(LookingUp)
  \/ Resume_getDocumentByPath_saveMetadata(LookingUp)

SpecLookup == Init /\ [][NextLookup]_vars

(***************************************************************************)
(* SpecReconcile: the FileWatcher alone, one event handled at a time.  A   *)
(* write or an unlink can fail, extraction can fail, a document's file can *)
(* be deleted from outside; fs.access fails only when the file is missing. *)
(***************************************************************************)
Reconciling ==
  [inFlight |-> 1, calls |-> MaxCalls, faults |-> MaxFaults, clock |-> 0,
   accessFaults |-> FALSE,
   contents |-> { <<"k">>, <<"q">> },
   paths |-> {PathA, PathB, PathBin}]

NextReconcile ==
  \/ \E p \in Reconciling.paths : handleFileAdded(Reconciling, p)
  \/ \E p \in Reconciling.paths : handleFileChanged(Reconciling, p)
  \/ \E p \in Reconciling.paths : handleFileDeleted(Reconciling, p)
  \/ \E id \in Ids : ExternalUnlink(id)
  \/ Resume_processFile(Reconciling)
  \/ Resume_addDocument_writeFile(Reconciling)
  \/ Resume_addDocument_saveMetadata(Reconciling)
  \/ Resume_updateDocument_writeFile(Reconciling)
  \/ Resume_updateDocument_saveMetadata(Reconciling)
  \/ Resume_deleteDocument_unlink(Reconciling)
  \/ Resume_deleteDocument_saveMetadata(Reconciling)
  \/ Resume_getDocumentByPath_access(Reconciling)
  \/ Resume_getDocumentByPath_saveMetadata(Reconciling)
  \/ Resume_saveIndex_writeFile(Reconciling)

SpecReconcile == Init /\ [][NextReconcile]_vars

(***************************************************************************)
(* SpecWatch: the FileWatcher alone, as chokidar drives it: an event is    *)
(* dispatched without awaiting the handler of the event before.  A write   *)
(* or an unlink can fail, extraction can fail.  Every I/O call a handler   *)
(* awaits completes, with success or with an error: the completions are    *)
(* weakly fair.                                                            *)
(***************************************************************************)
Watching ==
  [inFlight |-> MaxInFlight, calls |-> MaxCalls, faults |-> MaxFaults, clock |-> 0,
   accessFaults |-> FALSE,
   contents |-> { <<"k">> },
   paths |-> {PathA, PathBin}]

Completions ==
  \/ Resume_processFile(Watching)
  \/ Resume_addDocument_writeFile(Watching)
  \/ Resume_addDocument_saveMetadata(Watching)
  \/ Resume_updateDocument_writeFile(Watching)
  \/ Resume_updateDocument_saveMetadata(Watching)
  \/ Resume_deleteDocument_unlink(Watching)
  \/ Resume_deleteDocument_saveMetadata(Watching)
  \/ Resume_getDocumentByPath_access(Watching)
  \/ Resume_getDocumentByPath_saveMetadata(Watching)
  \/ Resume_saveIndex_writeFile(Watching)

NextWatch ==
  \/ \E p \in Watching.paths : handleFileAdded(Watching, p)
  \/ \E p \in Watching.paths : handleFileChanged(Watching, p)
  \/ \E p \in Watching.paths : handleFileDeleted(Watching, p)
  \/ Completions

SpecWatch == Init /\ [][NextWatch]_vars /\ WF_vars(Completions)

(***************************************************************************)
(* Properties                                                              *)
(***************************************************************************)
StoreIds == MapIds(metadata)

IndexIds == MapIds(documents)

\* getDocument(id) would return the record: the id is in the map and its
\* durable slot is there
Resolvable(id) == MapHas(metadata, id) /\ id \in DOMAIN slots

\* the ids SearchIndex.search(query, 50) would return now
Hits(query) ==
  LET r == search([index |-> index, documents |-> documents], query, SearchLimitCap)
  IN {r[i] : i \in 1..Len(r)}

\* the documents of the store whose path is p
AtPath(p) == {i \in 1..Len(metadata) : metadata[i].path = p}

Quiescent == th = EmptyBag

\* C1: in every reachable state, under any interleaving of the tool calls and
\* the watcher events, the ids of the index entries are a subset of the ids
\* of the store.
C1_IndexIdsSubsetOfStoreIds == IndexIds \subseteq StoreIds

\* C2: whenever no operation is in flight and every mutation so far returned
\* success, the ids of the index entries are exactly the ids of the store.
C2_QuiescentIdsEqual == (Quiescent /\ ~failed) => IndexIds = StoreIds

\* C3: after a delete of id has completed with success, getDocument(id) fails
\* and no search returns a hit with that id.
C3_DeletedStaysGone ==
  \A d \in deleted :
    /\ ~Resolvable(d[1])
    /\ \A q \in Concurrent.queries : d[1] \notin Hits(q)

\* C4: two runs of the watcher's added handling on a supported path with no
\* delete in between, one after the other or overlapping, leave exactly one
\* document with that path in the store.
C4_AddedTwiceOneDocument ==
  (addedRuns = 2 /\ ~failed) => Cardinality(AtPath(PathA)) = 1

\* C5: once a document was deleted and a document added again at its path,
\* the new document has another id and the old id is unresolvable in every
\* later state.
C5_OldIdUnresolvable ==
  \A d \in deleted :
    \A i \in AtPath(d[2]) :
      metadata[i].id # d[1] => ~Resolvable(d[1])

\* a caller of DocumentStore method op that holds the method's result
Returned(h, op) == h.op = op /\ h.pc = "returned"

\* C6: after a successful addDocument(path, content, type, overrides), the
\* record getDocument(id) returns has size = the byte length of content,
\* wordCount = the number of its white-space delimited non-empty tokens, and
\* createdAt = updatedAt.
C6_AddedRecordDerivedFields ==
  \A h \in InFlight :
    (Returned(h, "addDocument") /\ h.ok /\ Resolvable(h.id)) =>
      LET r == MapGet(metadata, h.id) IN
      /\ r.metadata.size = byteLength(r.content)
      /\ r.metadata.wordCount = wordCount(r.content)
      /\ r.metadata.createdAt = r.metadata.updatedAt

\* C7: after a successful updateDocument(id, updates), whatever updates
\* carries, the record has the id and the path it had before the call.
C7_UpdateKeepsIdAndPath ==
  \A h \in InFlight :
    (Returned(h, "updateDocument") /\ h.ok) =>
      LET before == MapGet(The(h.pre).metadata, h.id)
          after == MapGet(metadata, h.id)
      IN after.id = before.id /\ after.path = before.path

\* C8: in every reachable state every document of the store has
\* metadata.size = the byte length of its content, also after updateDocument
\* or the watcher's changed handling has replaced the content.
C8_SizeIsByteLength ==
  \A i \in 1..Len(metadata) :
    metadata[i].metadata.size = byteLength(metadata[i].content)

\* C9: a document added without a custom title has the file name of its path
\* as its title, whatever tags are supplied.
C9_TitleDefaultsToFilename ==
  \A h \in InFlight :
    (h.op = "add_document" /\ h.title = <<>> /\ MapHas(metadata, h.id)) =>
      MapGet(metadata, h.id).title = basename(h.path)

\* C10: updateDocument(id, ...) and deleteDocument(id) with an id that is not
\* in the store return a failed result and leave the in-memory map, every
\* durable slot and the manifest as they were.
C10_UnknownIdFailsUnchanged ==
  \A h \in InFlight :
    ((Returned(h, "updateDocument") \/ Returned(h, "deleteDocument"))
       /\ ~MapHas(The(h.pre).metadata, h.id)) =>
      /\ ~h.ok
      /\ metadata = The(h.pre).metadata
      /\ slots = The(h.pre).slots
      /\ manifest = The(h.pre).manifest

\* updateDocument of an unknown id has returned to its caller, the store
\* holding another document
C10_Witness ==
  \E h \in InFlight :
    /\ Returned(h, "updateDocument")
    /\ ~MapHas(The(h.pre).metadata, h.id)
    /\ The(h.pre).metadata # <<>>
    /\ IsSome(manifest)

C12_NoEntriesNoIndex ==
  Len(documents) = 0 =>
    /\ index = None
    /\ \A q \in Indexing.queries, n \in Indexing.limits : search(St(IdleThread), q, n) = <<>>
    /\ \A h \in InFlight : Returned(h, "search") => h.res = <<>>

\* a mutation has just emptied an index that was saved with entries
C12_Witness ==
  /\ Len(documents) = 0
  /\ IsSome(indexFile)
  /\ \E h \in InFlight :
       h.pc = "returned" /\ h.ok
         /\ h.op \in {"index.removeDocument", "rebuildFromDocuments"}

\* C13: the content of every index entry is at most 10,000 characters long,
\* whatever the length of the content of the document it was made from.
C13_EntryContentCapped ==
  \A i \in 1..Len(documents) : StrLen(documents[i].content) <= IndexContentCap

\* C14: the snippet of every hit is at most the window (contextLength, 150)
\* long plus one three-character ellipsis for each of its two boundaries.
C14_SnippetWithinWindow ==
  \A h \in InFlight :
    Returned(h, "search") =>
      \A i \in 1..Len(h.res) : StrLen(h.res[i].snippet) <= ContextLength + 2 * Len(Dots)

\* C15: search(query, limit) returns at most limit results, and the
\* search_documents tool lists at most 50 results whatever limit it is given.
C15_AtMostLimitResults ==
  \A q \in Limiting.queries, n \in Limiting.limits :
    /\ n >= 0 => Len(searchResults(St(IdleThread), q, n)) <= n
    /\ Len(search_documents_results(St(IdleThread), q, n)) <= SearchLimitCap

\* C16: when update_document(id, tags = T) has updated the store and the index
\* (what is left of the handler is the write of the index file, whose outcome
\* it ignores), the stored document has exactly the tags T and the content it
\* had, the index entry of id has exactly the tags T, and a search for any tag
\* of T returns id.
C16_UpdateReplacesTags ==
  \A h \in InFlight :
    (h.op = "update_document" /\ h.pc = "saveIndex_writeFile" /\ IsSome(h.tags)) =>
      LET T == The(h.tags) IN
      /\ MapHas(metadata, h.id)
      /\ MapGet(metadata, h.id).metadata.tags = T
      /\ slots[h.id].metadata.tags = T
      /\ MapGet(metadata, h.id).content = MapGet(The(h.pre).metadata, h.id).content
      /\ MapHas(documents, h.id)
      /\ MapGet(documents, h.id).tags = T
      /\ \A i \in 1..Len(T) :
           \E j \in 1..Len(search(St(IdleThread), T[i], 10)) :
             search(St(IdleThread), T[i], 10)[j] = h.id

\* a document added with the tag x has been given the tags y alone
C16_Witness ==
  \E h \in InFlight :
    /\ h.op = "update_document" /\ h.pc = "saveIndex_writeFile"
    /\ h.tags = Some(<< <<"y">> >>)
    /\ MapGet(The(h.pre).metadata, h.id).metadata.tags = << <<"x">> >>
    /\ MapGet(documents, h.id).tags = << <<"y">> >>

\* C17: when the startup of the server has completed, the ids of the index
\* entries and of the index object are the ids of the store, whatever the index
\* artifact held; an empty store gives no entries and no index object.
C17_StartupSyncsIndex ==
  \A h \in InFlight :
    (Returned(h, "initialize") /\ h.ok) =>
      /\ MapIds(documents) = MapIds(metadata)
      /\ IF metadata = <<>> THEN documents = <<>> /\ index = None
         ELSE IsSome(index) /\ MapIds(The(index)) = MapIds(metadata)

\* the startup read an index artifact with entries and left none: the store
\* was empty
C17_Witness ==
  \E h \in InFlight :
    /\ Returned(h, "initialize") /\ h.ok
    /\ h.read.index = "data"
    /\ Len(The(indexFile).docs) > 0
    /\ documents = <<>>

\* C18: when every call of the store so far has returned success and the
\* process is restarted, the map the startup loads holds the documents the map
\* held before the restart, with the same fields.
C18_DataSurvivesRestart ==
  \A h \in InFlight :
    (Returned(h, "initialize") /\ h.ok /\ ~failed) =>
      metadata = The(h.pre).metadata

\* a store with an added and updated document has been restarted
C18_Witness ==
  \E h \in InFlight :
    /\ Returned(h, "initialize") /\ h.ok /\ ~failed
    /\ Len(metadata) > 0
    /\ metadata[1].title = <<"T">>
    /\ metadata = The(h.pre).metadata

\* what a startup found in the place of an artifact
BadRead(h, file) == Has(h.read, file) /\ h.read[file] \in {"missing", "unparseable"}

\* C20: when the startup finds the manifest missing or unparseable, the
\* initialize of the store returns success (the startup goes on) and the map
\* is empty; when it finds the index artifact missing or unparseable, the
\* initialize of the index returns success and leaves no entries and no index
\* object.
C20_BadArtifactStartsEmpty ==
  \A h \in InFlight :
    h.op = "initialize" =>
      /\ BadRead(h, "manifest") =>
           /\ h.pc \in {"loadIndex_readFile", "getAllDocuments", "saveIndex_writeFile",
                         "returned"}
           /\ h.pc = "returned" => h.ok
           /\ metadata = <<>>
      /\ BadRead(h, "index") =>
           /\ h.pc \in {"getAllDocuments", "saveIndex_writeFile", "returned"}
           /\ h.pc = "returned" => h.ok
           /\ h.pc = "getAllDocuments" => documents = <<>> /\ index = None

\* a server that held a document starts with an unparseable manifest and no
\* index artifact
C20_Witness ==
  \E h \in InFlight :
    /\ h.op = "initialize" /\ h.pc = "getAllDocuments"
    /\ Has(h.read, "manifest") /\ h.read.manifest = "unparseable"
    /\ Has(h.read, "index") /\ h.read.index = "missing"
    /\ The(h.pre).metadata # <<>>
    /\ metadata = <<>> /\ documents = <<>> /\ index = None

\* C19: no call of a DocumentStore or SearchIndex method ends with a rejected
\* promise, whichever of its I/O calls fails: it is waiting for an I/O call or
\* has returned a result, which carries success = false when an I/O failure
\* stopped it.
C19_OperationsNeverReject ==
  \A h \in InFlight :
    h.op \in StoreCalls \cup IndexCalls => h.pc # "rejected"

\* a getDocument found the file of its document missing and its write of the
\* manifest failed: it has returned a failed result
C19_Witness ==
  \E h \in InFlight :
    /\ Returned(h, "getDocument") /\ ~h.ok
    /\ faults > 0
    /\ MapHas(The(h.pre).metadata, h.id)
    /\ ~MapHas(metadata, h.id)
    /\ manifest = The(h.pre).manifest

\* a record with the fields initialize is to require, the strings not empty
WellFormed(doc) ==
  /\ \A f \in {"id", "title", "content", "path", "type", "metadata"} : Has(doc, f)
  /\ doc.title # <<>> /\ doc.content # <<>> /\ doc.type # ""
  /\ \A f \in {"createdAt", "updatedAt", "size"} : Has(doc.metadata, f)

\* C21: after the startup has loaded the manifest, every record of the map has
\* a non-empty id, title, content, path and type and a metadata block with
\* createdAt, updatedAt and size; the entries of the manifest that have are
\* all loaded, the others are dropped.
C21_LoadedRecordsWellFormed ==
  \A h \in InFlight :
    (Returned(h, "initialize") /\ h.ok /\ h.read.manifest = "data") =>
      /\ \A i \in 1..Len(metadata) : WellFormed(metadata[i])
      /\ metadata = SelectSeq(The(manifest), WellFormed)

\* C22: in every reachable state, whatever add_document calls and watcher
\* events came before, at most one document of the store has a given path.
C22_OneDocumentPerPath ==
  \A p \in Sequential.paths : Cardinality(AtPath(p)) <= 1

\* the awaits of updateDocument and deleteDocument: the call has read the map
\* and has a write of the slot or of the manifest ahead
MidWrite(h) ==
  h.pc \in {"updateDocument_writeFile", "updateDocument_saveMetadata",
            "deleteDocument_unlink", "deleteDocument_saveMetadata"}

\* C23: the updates and deletes of one id are serialized: no two of them are
\* between their read of the map and their last durable write together, so
\* that no write of one falls between the read and the writes of the other.
C23_SameIdSerialized ==
  \A h1 \in InFlight :
    MidWrite(h1) =>
      /\ CopiesIn(h1, th) = 1
      /\ \A h2 \in InFlight \ {h1} : MidWrite(h2) => h2.id # h1.id

\* C24: when the SearchIndex calls made so far, overlapping or not, have all
\* completed with success and there is an index object, the index artifact
\* holds exactly the entries and the index object that are in memory.
C24_ArtifactIsFinalIndex ==
  ((\A h \in InFlight : h.pc = "returned") /\ ~failed /\ IsSome(index)) =>
    indexFile = Some(saveIndexData(St(IdleThread)))

\* the entry list in the index artifact (none when there is no artifact)
ArtifactEntries == IF indexFile = None THEN <<>> ELSE The(indexFile).docs

\* C25: when addDocument, updateDocument, removeDocument or
\* rebuildFromDocuments of SearchIndex has returned success, the entry list of
\* the index artifact equals the entries in memory, also when the call removed
\* the last entry.
C25_ArtifactEqualsEntries ==
  \A h \in InFlight :
    (h.pc = "returned" /\ h.ok
       /\ h.op \in {"index.addDocument", "index.removeDocument", "rebuildFromDocuments"}) =>
      ArtifactEntries = documents

\* the records in the manifest (none when there is no manifest)
ManifestEntries == IF manifest = None THEN <<>> ELSE The(manifest)

\* C26: whenever no operation is in flight and no operation has failed, the
\* records of the manifest are the records of the map in memory, however the
\* operations before interleaved.
C26_ManifestEqualsMap ==
  (Quiescent /\ ~failed) => ManifestEntries = metadata

\* C27: when addDocument has returned a failed result, because the write of
\* the slot or of the manifest failed, the record it constructed is in the map
\* in memory.
C27_FailedAddKeepsRecord ==
  \A h \in InFlight :
    (Returned(h, "addDocument") /\ ~h.ok) =>
      MapHas(metadata, h.id) /\ MapGet(metadata, h.id) = The(h.doc)

\* The one handler in flight is the added handling waiting for processFile,
\* and this step ends it: extraction has failed.
AddedAborts(h) ==
  /\ h.op = "handleFileAdded" /\ h.pc = "processFile"
  /\ th = SetToBag({h})
  /\ th' = EmptyBag

IdsAtPath(m, p) == {m[i].id : i \in {j \in 1..Len(m) : m[j].path = p}}

\* The one handler in flight began with a changed event, and this step ends
\* it; no extraction, write or index call has failed so far.
ChangedEnds(h) ==
  /\ h.event = "changed"
  /\ th = SetToBag({h})
  /\ th' = EmptyBag
  /\ ~failed'

\* C29: a changed event for a supported path, handled to its end with nothing
\* failing.  If the lookup found no live document, the handler went on as for
\* an added event: one document with a new id is in the map, in its slot and
\* in the index, and it is the one document of the path.  If the lookup found
\* a live document, the ids of the map and of the slots are those of before,
\* that id is the one document of the path, its content in the map and in the
\* slot is the content extracted, and its index entry is the entry of the
\* record now in the map.
C29_ChangedUpdatesInPlace ==
  [][\A h \in InFlight : ChangedEnds(h) =>
       IF h.op = "handleFileAdded"
       THEN /\ IsSome(h.doc)
            /\ LET doc == The(h.doc) IN
                 /\ doc.id = nextId' - 1
                 /\ doc.path = h.path
                 /\ doc.content \in Reconciling.contents
                 /\ IdsAtPath(metadata', h.path) = {doc.id}
                 /\ MapGet(metadata', doc.id) = doc
                 /\ doc.id \in DOMAIN slots' /\ slots'[doc.id] = doc
                 /\ MapHas(documents', doc.id)
                 /\ MapGet(documents', doc.id) = entryOf(doc)
                 /\ IsSome(index')
       ELSE /\ h.op = "handleFileChanged"
            /\ IsSome(h.doc) /\ IsSome(h.upd)
            /\ LET pre == The(h.pre)
                    id == The(h.doc).id
                    content == The(h.upd).content
                IN /\ MapHas(pre.metadata, id) /\ id \in DOMAIN pre.slots
                   /\ MapIds(metadata') = MapIds(pre.metadata)
                   /\ DOMAIN slots' = DOMAIN pre.slots
                   /\ IdsAtPath(metadata', h.path) = {id}
                   /\ content \in Reconciling.contents
                   /\ MapGet(metadata', id).content = content
                   /\ slots'[id].content = content
                   /\ MapHas(documents', id)
                   /\ MapGet(documents', id) = entryOf(MapGet(metadata', id))
                   /\ IsSome(index')]_vars

\* a changed event found a live document and is writing the index after an
\* update that replaced the content by another
C29_Witness ==
  \E h \in InFlight :
    /\ h.event = "changed" /\ h.op = "handleFileChanged"
    /\ h.pc = "saveIndex_writeFile"
    /\ ~failed
    /\ The(h.upd).content # The(h.doc).content
    /\ MapGet(metadata, h.id).content = The(h.upd).content

\* a changed event found no live document and is writing the index after
\* adding the document as an added event does
C29_WitnessAdded ==
  \E h \in InFlight :
    /\ h.event = "changed" /\ h.op = "handleFileAdded"
    /\ h.pc = "saveIndex_writeFile"
    /\ ~failed

\* The one handler in flight handles a removed event, its lookup by path has
\* found a live document, and this step ends it.
RemovedEnds(h) ==
  /\ h.op = "handleFileDeleted"
  /\ h.pc \in {"deleteDocument_unlink", "deleteDocument_saveMetadata",
               "saveIndex_writeFile"}
  /\ th = SetToBag({h})
  /\ th' = EmptyBag

\* C30: the handling of a removed event for a path with a live document calls
\* deleteDocument and then removeDocument whether or not deleteDocument
\* succeeded: when it ends the id has been put out of the index entries (what
\* removeDocument does before its first await).  A removed event for a path
\* with no record ends at once and leaves the store and the index unchanged.
C30_RemovedUnindexesAlways ==
  [][/\ \A h \in InFlight : RemovedEnds(h) => ~MapHas(documents', h.id)
     /\ (th = EmptyBag /\ th' = EmptyBag /\ calls' # calls) => World' = World]_vars

\* The one handler in flight is the added handling waiting for the write of
\* the index that SearchIndex.addDocument started, and this step ends it
\* with that write failed.
AddedIndexFails(h) ==
  /\ h.op = "handleFileAdded" /\ h.pc = "saveIndex_writeFile"
  /\ th = SetToBag({h})
  /\ th' = EmptyBag
  /\ faults' = faults + 1

\* C31: when SearchIndex.addDocument fails in the added handling, after
\* DocumentStore.addDocument succeeded, the handler ends and the document it
\* added is still in the map, in its slot and in the manifest.
C31_IndexFailureKeepsDocument ==
  [][\A h \in InFlight : AddedIndexFails(h) =>
       LET doc == The(h.doc) IN
       /\ MapHas(metadata', doc.id) /\ MapGet(metadata', doc.id) = doc
       /\ doc.id \in DOMAIN slots' /\ slots'[doc.id] = doc
       /\ IsSome(manifest') /\ MapHas(The(manifest'), doc.id)
       /\ MapGet(The(manifest'), doc.id) = doc]_vars

\* no handler is in flight and a stored document, in the map, its slot and the
\* manifest, is absent from the index file after the one write that failed
C31_Witness ==
  /\ Quiescent /\ faults = 1 /\ failed
  /\ \E id \in StoreIds :
       /\ id \in DOMAIN slots
       /\ IsSome(manifest) /\ MapHas(The(manifest), id)
       /\ MapHas(documents, id)
       /\ ~MapHas(ArtifactEntries, id)

\* C32: every handler of the watcher comes to its end, whatever the
\* extractor, the store and the index return: a state with handlers in flight
\* leads to a state with none, also when a handler before has failed (failed,
\* once set, stays set).
C32_HandlersTerminate == (th # EmptyBag) ~> (th = EmptyBag)

\* a handler has failed, and the handler of a later event is in flight alone,
\* waiting for its last write
C32_Witness ==
  /\ failed
  /\ \E h \in InFlight :
       /\ th = SetToBag({h})
       /\ h.pc = "saveIndex_writeFile"

\* the directory of the file at path p
path_dirname(p) == SubSeq(p, 1, Len(p) - 1)

\* C33: when DATA_PATH is set, the slots are in its documents directory, the
\* manifest is in its metadata directory and the index file is in its index
\* directory, one of the directories DocumentStore.initialize has made.
C33_ArtifactsUnderDataRoot ==
  IsSome(process.env.DATA_PATH) =>
    LET root == path_resolve(process.cwd, The(process.env.DATA_PATH))
        at(p) == path_resolve(process.cwd, p)
    IN /\ at(Store_documentsDir(process)) = root \o <<"documents">>
       /\ at(Store_metadataPath(process)) = root \o <<"metadata", "documents.json">>
       /\ at(Index_indexPath) = root \o <<"index", "search.json">>
       /\ path_dirname(at(Index_indexPath)) \in dirs

\* C34: an id whose deletion has completed with success is in the map and
\* in the manifest in no later state, whatever calls were in flight when it was
\* deleted.
C34_DeletedNeverResurrected ==
  \A e \in deleted :
    /\ ~MapHas(metadata, e[1])
    /\ ~MapHas(ManifestEntries, e[1])

\* the record of id h.id in the store as the call of h found it
Before(h) == MapGet(The(h.pre).metadata, h.id)

\* C35: two updateDocument calls on one id have both returned success, one
\* having changed the title and the other the content: the record in the map
\* has the title of the one and the content of the other.
C35_NoUpdateLost ==
  \A h1, h2 \in InFlight :
    ( /\ Returned(h1, "updateDocument") /\ h1.ok
      /\ Returned(h2, "updateDocument") /\ h2.ok
      /\ h1.id = h2.id
      /\ The(h1.upd).title # Before(h1).title
      /\ The(h2.upd).content # Before(h2).content
      /\ MapHas(metadata, h1.id) ) =>
        /\ MapGet(metadata, h1.id).title = The(h1.upd).title
        /\ MapGet(metadata, h1.id).content = The(h2.upd).content

\* C36: with no handler in flight and no failure so far, the index entry of
\* every id that is in the store and in the index has the title of the stored
\* document and its tags, no tags when the document has none.
C36_IndexProjectsStore ==
  (Quiescent /\ ~failed) =>
    \A id \in StoreIds \cap IndexIds :
      LET doc == MapGet(metadata, id)
          entry == MapGet(documents, id)
      IN /\ entry.title = doc.title
         /\ entry.tags = IF Has(doc.metadata, "tags") THEN doc.metadata.tags ELSE <<>>

\* C37: in every state, each of them one that a call of SearchIndex leaves
\* at an await or at its return, the index object exists exactly when there
\* are entries: getIndexStats() reports indexExists = (totalDocuments > 0).
C37_IndexExistsIffEntries ==
  LET stats == getIndexStats(St(IdleThread))
  IN stats.indexExists = (stats.totalDocuments > 0)

\* addDocument has returned a failed result, its write of the index file
\* having failed, and the index object and the entries are there
C37_Witness ==
  \E h \in InFlight :
    /\ Returned(h, "index.addDocument") /\ ~h.ok
    /\ IsSome(index) /\ documents # <<>>

\* C38: a SearchIndex.addDocument that has returned a failed result leaves
\* its entry in the entry map, found by a search for its title; a
\* removeDocument of an entry that was there, having returned a failed result,
\* leaves the entry out of the entry map and out of the results of a search.
C38_FailedSaveKeepsChange ==
  \A h \in InFlight :
    /\ (Returned(h, "index.addDocument") /\ ~h.ok) =>
         /\ MapHas(documents, h.id)
         /\ MapGet(documents, h.id) = entryOf(The(h.doc))
         /\ h.id \in Hits(The(h.doc).title)
    /\ (Returned(h, "index.removeDocument") /\ ~h.ok /\ IsSome(h.doc)) =>
         /\ ~MapHas(documents, h.id)
         /\ h.id \notin Hits(The(h.doc).title)

\* removeDocument found its entry, took it out and has returned a failed
\* result: the write of the entries that are left has failed
C38_Witness ==
  \E h \in InFlight :
    /\ Returned(h, "index.removeDocument") /\ ~h.ok /\ IsSome(h.doc)
    /\ documents # <<>>

\* addDocument has returned a failed result and a search finds its entry
C38_WitnessAdd ==
  \E h \in InFlight :
    /\ Returned(h, "index.addDocument") /\ ~h.ok
    /\ h.id \in Hits(The(h.doc).title)

\* the records of the map m whose path is p and whose slot is among slotIds
LiveAtPath(m, slotIds, p) ==
  {i \in 1..Len(m) : m[i].path = p /\ m[i].id \in slotIds}

====
